---- MODULE Spec2Model ----
(***************************************************************************)
(* State-machine model of the wolfTPM examples                             *)
(*   examples/pkcs7/pkcs7.c  (GetMyData, PKCS7_SignVerifyEx,               *)
(*                            PKCS7_SignVerify, TPM2_PKCS7_ExampleArgs)    *)
(*   examples/bench/bench.c  (bench_sym_hash, bench_sym_aes,               *)
(*                            TPM2_Wrapper_Bench)                          *)
(* One action per library call or loop step of the C code.  Every library  *)
(* call may fail: its return code is drawn from a small set.               *)
(***************************************************************************)
EXTENDS Integers, Sequences, FiniteSets, TLC

(* ---------------------------------------------------------------------- *)
(* Bounds of the model (the C values are scaled down to these).            *)
(* ---------------------------------------------------------------------- *)

\* largest MY_DATA_TOTAL explored (the C value is 1024*1024+12)
MaxTotal == 4

\* largest chunk capacity MY_DATA_CHUNKS explored (the C value is WOLFTPM2_MAX_BUFFER)
MaxChunk == 3

\* largest number of extra iterations a timed benchmark loop makes
MaxIter == 1

\* capacity of outputHead / outputFoot / output (the C value is MAX_PKCS7_SIZE)
MaxPkcs7Size == 2

\* capacity of der.buffer (the C value is sizeof(der.buffer))
DerBufferSize == 1

VARIABLES
    myDataTotal,  \* const word32 myDataTotal = MY_DATA_TOTAL
    gmFirst,      \* a remembered call of GetMyData (arguments and result)
    gmLast,       \* the latest call of GetMyData (arguments and result)
    gmBetween,    \* a call with other arguments happened after gmFirst
    rdCap,        \* per reader: the chunk capacity it pulls with
    rdOff,        \* per reader: its offset variable
    rdFed,        \* per reader: the bytes it fed to its digest so far
    rdDone,       \* per reader: GetMyData signalled end of content
    prog,         \* which program runs: "pkcs7" or "bench"
    pc,           \* position in the running program
    rc,           \* int rc of the function being executed
    dev,          \* WOLFTPM2_DEV: "Closed", "Open", "CleanedUp"
    key,          \* per key variable: lifecycle state of its handle
    unloads,      \* per key variable: unload invocations since its last load
    badUnload,    \* key variables on which unload was invoked while not Loaded
    keyOps,       \* key operations invoked so far: <<operation, key state>>
    chunkCap,     \* sizeof(dataChunk) = MY_DATA_CHUNKS
    offset,       \* word32 offset of PKCS7_SignVerifyEx
    dataChunkSz,  \* word32 dataChunkSz of PKCS7_SignVerifyEx
    dataChunk,    \* byte dataChunk[MY_DATA_CHUNKS]
    hash,         \* wc_HashAlg hash: its state, the bytes fed to it and the
                  \* <<offset, size>> of every chunk fed
    hashBuf,      \* byte hashBuf[]: the digest, with the pass that computed it
    hashPass,     \* number of digest computations finalized so far
    pkcs7,        \* PKCS7 pkcs7: inited, devId, contentSz
    outputHead,   \* outputHead / outputHeadSz and what the header declares
    outputFoot,   \* outputFoot / outputFootSz and the signature it carries
    output,       \* output / outputSz of PKCS7_SignVerify
    pemFile,      \* the .p7s file being written: state and bytes
    der,          \* WOLFTPM2_BUFFER der and the certificate file
    encodeLog,    \* the encode calls made: digest, contentSz and capacities
                  \* given, sizes needed
    verifyLog,    \* the verify calls made: device, digest, contentSz, result
    steps,        \* calls of the PKCS7 example, in order: <<label, call, outcome>>,
                  \* outcome the return code (of a read or write: 0 when all
                  \* bytes asked for were transferred, else -1)
    contentAltered, \* the content differs from what was digested at build
    count,        \* int count of the benchmark loops
    aesIdx,       \* which of the bench_sym_aes calls is running
    hashIdx,      \* which of the bench_sym_hash calls is running
    tpmHash,      \* WOLFTPM2_HASH hash of bench_sym_hash: "Uninit", "Active"
                  \* (started, finish not called), "Finalized", "FinishFailed"
    tolerated,    \* kinds of benchmark ("aes", "hash") whose nonzero result
                  \* TPM2_Wrapper_Bench passed over
    storageKey,   \* WOLFTPM2_KEY storageKey of TPM2_Wrapper_Bench: the result
                  \* of the probe, the create and store calls made, and
                  \* whether the auth secret was set on the handle found
    gen           \* the successful wolfTPM2_CreateAndLoadKey calls and the
                  \* wolfTPM2_UnloadHandle calls made in the key generation
                  \* loop of TPM2_Wrapper_Bench entered last

gmVars == <<gmFirst, gmLast, gmBetween>>
rdVars == <<rdCap, rdOff, rdFed, rdDone>>
keyVars == <<key, unloads, badUnload, keyOps>>
hashVars == <<offset, dataChunkSz, dataChunk, hash, hashBuf, hashPass>>
envlVars == <<outputHead, outputFoot, output, encodeLog>>
pkVars == <<pkcs7, verifyLog>>
fileVars == <<pemFile, der>>
benchVars == <<count, aesIdx, hashIdx, tpmHash, tolerated, storageKey, gen>>
cfgVars == <<myDataTotal, chunkCap, prog>>
progVars == <<pc, rc, steps, dev, keyVars, hashVars, envlVars, pkVars,
              fileVars, benchVars>>
vars == <<cfgVars, gmVars, rdVars, progVars, contentAltered>>

(* ---------------------------------------------------------------------- *)
(* Machine arithmetic                                                      *)
(* ---------------------------------------------------------------------- *)

\* the modulus of word32 arithmetic.  The checker's integers are 32-bit signed,
\* so the unsigned word is modelled 30 bits wide: it wraps the same way and
\* every value of the model is far below the modulus, as in the C code
Word32 == 2 ^ 30

\* word32 subtraction, as the C unsigned arithmetic computes it
Sub32(a, b) == (a - b + Word32) % Word32

\* word32 addition
Add32(a, b) == (a + b) % Word32

Min(a, b) == IF a < b THEN a ELSE b

\* a buffer of n bytes nobody wrote yet
Untouched(n) == [k \in 1..n |-> -1]

(* ---------------------------------------------------------------------- *)
(* GetMyData (pkcs7.c:64-88)                                               *)
(* ---------------------------------------------------------------------- *)

\* mutant: the byte comes from an internal cursor left by the previous call
GetMyDataByte_Cursor(i, off) ==
    ((IF gmLast.valid THEN gmLast.offset + gmLast.ret ELSE 0) + i) % 256

\* buffer[i] = (i & 0xff): the byte stored at index i of the buffer
GetMyDataByte(i, off) == i % 256

\* mutant: the "check for overflow" (offset >= myDataTotal) is missing
GetMyData_NoOverflowCheck(bufNull, buffer, bufSz, off) ==
    IF bufNull
    THEN [ret |-> myDataTotal, buffer |-> buffer, wrote |-> {},
          underflow |-> FALSE]
    ELSE LET n == IF bufSz > Sub32(myDataTotal, off)
                  THEN Sub32(myDataTotal, off) ELSE bufSz
         IN  [ret |-> n,
              buffer |-> [k \in 1..Len(buffer) |->
                            IF k <= n THEN GetMyDataByte(k - 1, off)
                            ELSE buffer[k]],
              wrote |-> 0..(n - 1),
              underflow |-> off > myDataTotal]

\* static int GetMyData(byte* buffer, word32 bufSz, word32 offset)
\* ret: the value returned; buffer: the buffer afterwards; wrote: the buffer
\* indexes written; underflow: myDataTotal - offset was computed with
\* offset > myDataTotal
GetMyData(bufNull, buffer, bufSz, off) ==
    IF bufNull
    THEN [ret |-> myDataTotal, buffer |-> buffer, wrote |-> {},
          underflow |-> FALSE]
    ELSE IF off >= myDataTotal
    THEN [ret |-> 0, buffer |-> buffer, wrote |-> {}, underflow |-> FALSE]
    ELSE LET n == IF bufSz > Sub32(myDataTotal, off)
                  THEN Sub32(myDataTotal, off) ELSE bufSz
         IN  [ret |-> n,
              buffer |-> [k \in 1..Len(buffer) |->
                            IF k <= n THEN GetMyDataByte(k - 1, off)
                            ELSE buffer[k]],
              wrote |-> 0..(n - 1),
              underflow |-> off > myDataTotal]

(* ---------------------------------------------------------------------- *)
(* Values of the program variables before a program starts                 *)
(* ---------------------------------------------------------------------- *)

Keys == {"rsaKey", "eccKey", "aesKey"}

NoCall == [valid |-> FALSE, null |-> FALSE, bufSz |-> 0, offset |-> 0,
           ret |-> 0, buffer |-> <<>>, wrote |-> {}, underflow |-> FALSE]

NoDigest == [valid |-> FALSE, over |-> <<>>, pass |-> 0]

NoHead == [valid |-> FALSE, sz |-> 0, contentSz |-> 0, digest |-> <<>>]

NoFoot == [valid |-> FALSE, sz |-> 0, sig |-> <<>>]

Readers == {1, 2}

GmIdle ==
    /\ gmFirst = NoCall
    /\ gmLast = NoCall
    /\ gmBetween = FALSE

RdIdle ==
    /\ rdCap = [r \in Readers |-> 1]
    /\ rdOff = [r \in Readers |-> 0]
    /\ rdFed = [r \in Readers |-> <<>>]
    /\ rdDone = [r \in Readers |-> FALSE]

\* the locals of the program p as its main function finds them: the PKCS7
\* example zeroes der, rsaKey and storageKey (pkcs7.c:323-325), the
\* benchmark leaves rsaKey and eccKey uninitialized (bench.c:195-196)
ProgStart(p) ==
    /\ prog = p
    /\ pc = IF p = "pkcs7" THEN "x_init"
            ELSE IF p = "bench" THEN "b_init" ELSE "idle"
    /\ rc = 0
    /\ steps = <<>>
    /\ dev = "Closed"
    /\ key = [k \in Keys |->
                IF p = "pkcs7" THEN (IF k = "rsaKey" THEN "Zeroed" ELSE "Absent")
                ELSE IF p = "bench"
                     THEN (IF k = "aesKey" THEN "Absent" ELSE "Uninit")
                     ELSE "Absent"]
    /\ unloads = [k \in Keys |-> 0]
    /\ badUnload = {}
    /\ keyOps = {}
    /\ offset = 0
    /\ dataChunkSz = 0
    /\ dataChunk = Untouched(chunkCap)
    /\ hash = [st |-> "Uninit", fed |-> <<>>, chunks |-> <<>>]
    /\ hashBuf = NoDigest
    /\ hashPass = 0
    /\ outputHead = NoHead
    /\ outputFoot = NoFoot
    /\ output = [valid |-> FALSE, sz |-> 0]
    /\ encodeLog = <<>>
    /\ pkcs7 = [inited |-> FALSE, devId |-> "none", contentSz |-> 0]
    /\ verifyLog = <<>>
    /\ pemFile = [st |-> "NotOpened", data |-> <<>>]
    /\ der = [size |-> 0, file |-> "NotOpened", fileLen |-> 0, nread |-> 0]
    /\ count = 0
    /\ aesIdx = 0
    /\ tolerated = {}
    /\ storageKey = [probe |-> "none", creates |-> 0, created |-> FALSE,
                     stores |-> 0, stored |-> FALSE, auth |-> FALSE]
    /\ gen = [creates |-> 0, unloads |-> 0]
    /\ hashIdx = 0
    /\ tpmHash = "Uninit"

(* ---------------------------------------------------------------------- *)
(* GetMyData as a function of its arguments: calls in any order            *)
(* ---------------------------------------------------------------------- *)

InitGetMyData ==
    /\ myDataTotal \in 0..MaxTotal
    /\ chunkCap = 1
    /\ contentAltered = FALSE
    /\ GmIdle
    /\ RdIdle
    /\ ProgStart("none")

\* one call GetMyData(buffer, bufSz, offset), buffer NULL or of bufSz bytes;
\* the first call may be remembered to compare a later one with it
GM_Call ==
    \E null \in BOOLEAN, bufSz \in 0..MaxChunk, off \in 0..(MaxTotal + 2),
       keep \in BOOLEAN :
        LET buf == IF null THEN <<>> ELSE Untouched(bufSz)
            g == GetMyData(null, buf, bufSz, off)
            call == [valid |-> TRUE, null |-> null, bufSz |-> bufSz,
                     offset |-> off, ret |-> g.ret, buffer |-> g.buffer,
                     wrote |-> g.wrote, underflow |-> g.underflow]
        IN  /\ gmLast' = call
            /\ gmFirst' = IF keep /\ ~gmFirst.valid THEN call ELSE gmFirst
            /\ gmBetween' = IF gmFirst.valid
                               /\ <<null, bufSz, off>> #
                                  <<gmFirst.null, gmFirst.bufSz, gmFirst.offset>>
                            THEN TRUE ELSE gmBetween
            /\ UNCHANGED <<cfgVars, rdVars, progVars, contentAltered>>

NextGetMyData == GM_Call

SpecGetMyData == InitGetMyData /\ [][NextGetMyData]_vars

(* ---------------------------------------------------------------------- *)
(* The digest loop of pkcs7.c:113-120 run with two chunk capacities        *)
(* ---------------------------------------------------------------------- *)

InitChunking ==
    /\ myDataTotal \in 0..MaxTotal
    /\ chunkCap = 1
    /\ contentAltered = FALSE
    /\ GmIdle
    /\ rdCap \in [Readers -> 1..MaxChunk]
    /\ rdOff = [r \in Readers |-> 0]
    /\ rdFed = [r \in Readers |-> <<>>]
    /\ rdDone = [r \in Readers |-> FALSE]
    /\ ProgStart("none")

\* one iteration of the loop for reader r: pull a chunk at rdOff[r], stop on
\* 0, else feed the chunk's dataChunkSz bytes to the digest and advance
RD_Pull(r) ==
    /\ ~rdDone[r]
    /\ LET g == GetMyData(FALSE, Untouched(rdCap[r]), rdCap[r], rdOff[r])
       IN  IF g.ret = 0
           THEN /\ rdDone' = [rdDone EXCEPT ![r] = TRUE]
                /\ UNCHANGED <<rdOff, rdFed>>
           ELSE /\ rdFed' = [rdFed EXCEPT ![r] = @ \o SubSeq(g.buffer, 1, g.ret)]
                /\ rdOff' = [rdOff EXCEPT ![r] = Add32(@, g.ret)]
                /\ UNCHANGED rdDone
    /\ UNCHANGED <<cfgVars, gmVars, rdCap, progVars, contentAltered>>

NextChunking == \E r \in Readers : RD_Pull(r)

SpecChunking == InitChunking /\ [][NextChunking]_vars

(* ---------------------------------------------------------------------- *)
(* Library calls: return codes and effects                                 *)
(* ---------------------------------------------------------------------- *)

\* what a wolfCrypt call returns: 0, or an error (negative, BAD_FUNC_ARG)
RcWc == {0, -173}

\* what a wolfTPM2 wrapper call returns: 0, a negative wolfCrypt style
\* error, or a positive TPM response code (TPM_RC_FAILURE)
RcTpm == {0, -173, 257}

\* sizeof(data) of PKCS7_SignVerify: "My encoded DER cert." and its NUL
DataSz == 21

\* the frame of every action of a program: what no program step changes
envVars == <<cfgVars, gmVars, rdVars, contentAltered>>

\* a key operation op is invoked with key variable k: remember the state the
\* handle was in
UseKey(op, k) == keyOps' = keyOps \cup {<<op, k, key[k]>>}

\* a successful load into key variable k
LoadKey(k) ==
    /\ key' = [key EXCEPT ![k] = "Loaded"]
    /\ unloads' = [unloads EXCEPT ![k] = 0]

\* wolfTPM2_UnloadHandle(&dev, &k.handle) returning r: a Loaded handle is
\* released when the call succeeds
UnloadHandle(k, r) ==
    /\ key' = [key EXCEPT ![k] = IF @ = "Loaded" /\ r = 0 THEN "Unloaded" ELSE @]
    /\ unloads' = [unloads EXCEPT ![k] = @ + 1]
    /\ badUnload' = IF key[k] # "Loaded" THEN badUnload \cup {k} ELSE badUnload

\* wc_PKCS7_VerifySignedData_ex: 0 when the digest given is the one the
\* header carries and the signature covers, and the length is the declared
\* one; else a verification failure (SIG_VERIFY_E)
VerifySignedData_ex(dg, contentSz, head, foot) ==
    IF /\ head.valid
       /\ foot.valid
       /\ dg.valid
       /\ head.digest = dg.over
       /\ foot.sig = dg.over
       /\ head.contentSz = contentSz
    THEN 0 ELSE -229

\* wc_PKCS7_VerifySignedData on a whole signed container
VerifySignedData(out) == IF out.valid /\ out.sz > 0 THEN 0 ELSE -229

\* the bytes 1..n of a buffer whose bytes are named by part
Bytes(part, n) == [k \in 1..n |-> <<part, k>>]

(* ---------------------------------------------------------------------- *)
(* TPM2_PKCS7_ExampleArgs (pkcs7.c:304-402)                                *)
(* ---------------------------------------------------------------------- *)

\* mutant: a failed wolfTPM2_Init leaves through the exit label
X_Init_GotoExit ==
    /\ prog = "pkcs7" /\ pc = "x_init"
    /\ \E r \in RcTpm :
        /\ rc' = r
        /\ dev' = IF r = 0 THEN "Open" ELSE dev
        /\ pc' = IF r # 0 THEN "x_exit" ELSE "x_setcb"
        /\ steps' = Append(steps, <<"x_init", "wolfTPM2_Init", r>>)
    /\ UNCHANGED <<envVars, keyVars, hashVars, envlVars, pkVars, fileVars,
                   benchVars>>

\* rc = wolfTPM2_Init(&dev, TPM2_IoCb, userCtx); if (rc != 0) return rc;
X_Init ==
    /\ prog = "pkcs7" /\ pc = "x_init"
    /\ \E r \in RcTpm :
        /\ rc' = r
        /\ dev' = IF r = 0 THEN "Open" ELSE dev
        /\ pc' = IF r # 0 THEN "done" ELSE "x_setcb"
        /\ steps' = Append(steps, <<"x_init", "wolfTPM2_Init", r>>)
    /\ UNCHANGED <<envVars, keyVars, hashVars, envlVars, pkVars, fileVars,
                   benchVars>>

\* rc = wolfTPM2_SetCryptoDevCb(...); if (rc < 0) goto exit;
X_SetCryptoDevCb ==
    /\ prog = "pkcs7" /\ pc = "x_setcb"
    /\ \E r \in RcWc :
        /\ rc' = r
        /\ pc' = IF r < 0 THEN "x_exit" ELSE "x_srk"
        /\ steps' = Append(steps, <<"x_setcb", "wolfTPM2_SetCryptoDevCb", r>>)
    /\ UNCHANGED <<envVars, dev, keyVars, hashVars, envlVars, pkVars,
                   fileVars, benchVars>>

\* rc = getPrimaryStoragekey(&dev, &storageKey, TPM_ALG_RSA);
X_GetPrimaryStoragekey ==
    /\ prog = "pkcs7" /\ pc = "x_srk"
    /\ \E r \in RcTpm :
        /\ rc' = r
        /\ pc' = IF r # 0 THEN "x_exit" ELSE "x_tmpl"
        /\ steps' = Append(steps, <<"x_srk", "getPrimaryStoragekey", r>>)
    /\ UNCHANGED <<envVars, dev, keyVars, hashVars, envlVars, pkVars,
                   fileVars, benchVars>>

\* rc = wolfTPM2_GetKeyTemplate_RSA(&publicTemplate, ...);
X_GetKeyTemplate ==
    /\ prog = "pkcs7" /\ pc = "x_tmpl"
    /\ \E r \in RcTpm :
        /\ rc' = r
        /\ pc' = IF r # 0 THEN "x_exit" ELSE "x_getkey"
        /\ steps' = Append(steps, <<"x_tmpl", "wolfTPM2_GetKeyTemplate_RSA", r>>)
    /\ UNCHANGED <<envVars, dev, keyVars, hashVars, envlVars, pkVars,
                   fileVars, benchVars>>

\* rc = getRSAkey(&dev, &storageKey, &rsaKey, ...); if (rc != 0) goto exit;
\* wolfTPM2_SetAuthHandle(&dev, 0, &rsaKey.handle);
X_GetRSAkey ==
    /\ prog = "pkcs7" /\ pc = "x_getkey"
    /\ \E r \in RcTpm :
        /\ rc' = r
        /\ pc' = IF r # 0 THEN "x_exit" ELSE "x_deropen"
        /\ steps' = Append(steps, <<"x_getkey", "getRSAkey", r>>)
        /\ IF r = 0 THEN LoadKey("rsaKey") ELSE UNCHANGED <<key, unloads>>
    /\ UNCHANGED <<envVars, dev, badUnload, keyOps, hashVars, envlVars,
                   pkVars, fileVars, benchVars>>

\* derFile = XFOPEN("./certs/client-rsa-cert.der", "rb");
\* if (derFile != XBADFILE) { ... }
X_DerOpen ==
    /\ prog = "pkcs7" /\ pc = "x_deropen"
    /\ \E ok \in BOOLEAN, len \in 0..(DerBufferSize + 1) :
        /\ (~ok => len = 0)
        /\ der' = [der EXCEPT !.file = IF ok THEN "Open" ELSE "OpenFailed",
                              !.fileLen = len]
        /\ pc' = IF ok THEN "x_derload" ELSE "s_init1"
        /\ steps' = Append(steps, <<"x_deropen", "XFOPEN",
                                    IF ok THEN 0 ELSE -1>>)
    /\ UNCHANGED <<envVars, rc, dev, keyVars, hashVars, envlVars, pkVars,
                   pemFile, benchVars>>

\* XFSEEK; der.size = (int)XFTELL(derFile); XREWIND;
\* if (der.size > (int)sizeof(der.buffer)) rc = BUFFER_E;
\* else { rc = (int)XFREAD(der.buffer, 1, der.size, derFile);
\*        rc = (rc == der.size) ? 0 : -1; }
\* XFCLOSE(derFile); if (rc != 0) goto exit;
\* XFTELL gives the length of the file or -1; XFREAD is asked for
\* (size_t)der.size bytes and may read fewer than the file holds
X_DerLoad ==
    /\ prog = "pkcs7" /\ pc = "x_derload"
    /\ \E tell \in {-1, der.fileLen}, short \in BOOLEAN :
        LET asked == IF tell < 0 THEN Word32 - 1 ELSE tell
            avail == Min(asked, der.fileLen)
            got == IF short /\ avail > 0 THEN avail - 1 ELSE avail
            tooBig == tell > DerBufferSize
            r == IF tooBig THEN -132 ELSE IF got = tell THEN 0 ELSE -1
        IN  /\ (tooBig => ~short)
            /\ der' = [der EXCEPT !.size = tell,
                                  !.nread = IF tooBig THEN 0 ELSE got,
                                  !.file = "Closed"]
            /\ rc' = r
            /\ pc' = IF r # 0 THEN "x_exit" ELSE "s_init1"
            /\ steps' = steps \o
                 ( (IF tooBig THEN <<>> ELSE <<<<"x_derload", "XFREAD", IF got = tell THEN 0 ELSE -1>>>>)
                   \o <<<<"x_derload", "XFCLOSE", 0>>>> )
    /\ UNCHANGED <<envVars, dev, keyVars, hashVars, envlVars, pkVars,
                   pemFile, benchVars>>

\* exit: wolfTPM2_UnloadHandle(&dev, &rsaKey.handle);
X_Exit ==
    /\ prog = "pkcs7" /\ pc = "x_exit"
    /\ \E r \in RcTpm :
        /\ UnloadHandle("rsaKey", r)
        /\ steps' = Append(steps, <<"x_exit", "wolfTPM2_UnloadHandle", r>>)
    /\ pc' = "x_cleanup"
    /\ UNCHANGED <<envVars, rc, dev, keyOps, hashVars, envlVars, pkVars,
                   fileVars, benchVars>>

\* wolfTPM2_Cleanup(&dev); return rc;
X_Cleanup ==
    /\ prog = "pkcs7" /\ pc = "x_cleanup"
    /\ dev' = "CleanedUp"
    /\ pc' = "done"
    /\ steps' = Append(steps, <<"x_cleanup", "wolfTPM2_Cleanup", 0>>)
    /\ UNCHANGED <<envVars, rc, keyVars, hashVars, envlVars, pkVars,
                   fileVars, benchVars>>

(* ---------------------------------------------------------------------- *)
(* PKCS7_SignVerify (pkcs7.c:230-298)                                      *)
(* ---------------------------------------------------------------------- *)

\* rc = wc_PKCS7_Init(&pkcs7, NULL, devId); if (rc != 0) goto exit;
\* at label here of function fn, going to next on success and to the
\* function's return on failure
PkInit(here, devId, next, ret) ==
    /\ \E r \in RcWc :
        /\ rc' = r
        /\ pkcs7' = IF r = 0
                    THEN [inited |-> TRUE, devId |-> devId, contentSz |-> 0]
                    ELSE pkcs7
        /\ pc' = IF r # 0 THEN ret ELSE next
        /\ steps' = Append(steps, <<here, "wc_PKCS7_Init", r>>)
    /\ UNCHANGED <<envVars, dev, keyVars, hashVars, envlVars, verifyLog,
                   fileVars, benchVars>>

\* rc = wc_PKCS7_InitWithCert(&pkcs7, cert, certSz); if (rc != 0) goto exit;
PkInitWithCert(here, next, ret) ==
    /\ \E r \in RcWc :
        /\ rc' = r
        /\ pc' = IF r # 0 THEN ret ELSE next
        /\ steps' = Append(steps, <<here, "wc_PKCS7_InitWithCert", r>>)
    /\ UNCHANGED <<envVars, dev, keyVars, hashVars, envlVars, pkVars,
                   fileVars, benchVars>>

\* XMEMSET(&pkcs7, 0, sizeof(pkcs7)); rc = wc_PKCS7_Init(&pkcs7, NULL, tpmDevId);
S_Init1 ==
    /\ prog = "pkcs7" /\ pc = "s_init1"
    /\ PkInit("s_init1", "tpmDevId", "s_cert1", "s_ret")

\* rc = wc_PKCS7_InitWithCert(&pkcs7, der->buffer, der->size);
S_Cert1 ==
    /\ prog = "pkcs7" /\ pc = "s_cert1"
    /\ PkInitWithCert("s_cert1", "s_encode", "s_ret")

\* pkcs7.content = data; pkcs7.contentSz = sizeof(data); ...
\* rc = wc_PKCS7_EncodeSignedData(&pkcs7, output, sizeof(output));
\* if (rc <= 0) goto exit; wc_PKCS7_Free(&pkcs7); outputSz = rc;
\* the call returns the size of the container, 0, or an error (BUFFER_E when
\* output is too small); it signs with rsaKey through the crypto callback
S_Encode ==
    /\ prog = "pkcs7" /\ pc = "s_encode"
    /\ \E r \in {-173, -132, 0} \cup (1..MaxPkcs7Size) :
        /\ rc' = r
        /\ UseKey("wc_PKCS7_EncodeSignedData", "rsaKey")
        /\ encodeLog' = Append(encodeLog,
              [fn |-> "PKCS7_SignVerify", digest |-> NoDigest,
               contentSz |-> DataSz, rc |-> r])
        /\ IF r <= 0
           THEN /\ pc' = "s_ret"
                /\ pkcs7' = [pkcs7 EXCEPT !.contentSz = DataSz]
                /\ steps' = Append(steps,
                      <<"s_encode", "wc_PKCS7_EncodeSignedData", r>>)
                /\ UNCHANGED output
           ELSE /\ pc' = "s_fopen"
                /\ pkcs7' = [pkcs7 EXCEPT !.contentSz = DataSz,
                                          !.inited = FALSE]
                /\ output' = [valid |-> TRUE, sz |-> r]
                /\ steps' = steps \o
                      << <<"s_encode", "wc_PKCS7_EncodeSignedData", r>>,
                         <<"s_encode", "wc_PKCS7_Free", 0>> >>
    /\ UNCHANGED <<envVars, dev, key, unloads, badUnload, hashVars,
                   outputHead, outputFoot, verifyLog, fileVars, benchVars>>

\* pemFile = XFOPEN("./examples/pkcs7/pkcs7tpmsigned.p7s", "wb");
\* if (pemFile != XBADFILE) { ... }
S_FOpen ==
    /\ prog = "pkcs7" /\ pc = "s_fopen"
    /\ \E ok \in BOOLEAN :
        /\ pemFile' = [st |-> IF ok THEN "Open" ELSE "OpenFailed",
                       data |-> <<>>]
        /\ pc' = IF ok THEN "s_fwrite" ELSE "s_init2"
        /\ steps' = Append(steps, <<"s_fopen", "XFOPEN",
                                    IF ok THEN 0 ELSE -1>>)
    /\ UNCHANGED <<envVars, rc, dev, keyVars, hashVars, envlVars, pkVars,
                   der, benchVars>>

\* rc = (int)XFWRITE(output, 1, outputSz, pemFile); XFCLOSE(pemFile);
\* if (rc != outputSz) { rc = -1; goto exit; }
S_FWrite ==
    /\ prog = "pkcs7" /\ pc = "s_fwrite"
    /\ \E w \in {output.sz, output.sz - 1} :
        /\ pemFile' = [st |-> "Closed",
                       data |-> SubSeq(Bytes("out", output.sz), 1, w)]
        /\ rc' = IF w # output.sz THEN -1 ELSE w
        /\ pc' = IF w # output.sz THEN "s_ret" ELSE "s_init2"
        /\ steps' = steps \o << <<"s_fwrite", "XFWRITE", IF w = output.sz THEN 0 ELSE -1>>,
                                <<"s_fwrite", "XFCLOSE", 0>> >>
    /\ UNCHANGED <<envVars, dev, keyVars, hashVars, envlVars, pkVars, der,
                   benchVars>>

\* rc = wc_PKCS7_VerifySignedData(&pkcs7, output, outputSz);
\* if (rc != 0) goto exit; wc_PKCS7_Free(&pkcs7);
SvVerify(here, next) ==
    /\ \E fault \in RcWc :
        LET r == IF fault # 0 THEN fault ELSE VerifySignedData(output)
        IN  /\ rc' = r
            /\ verifyLog' = Append(verifyLog,
                  [fn |-> "PKCS7_SignVerify", devId |-> pkcs7.devId,
                   digest |-> NoDigest, contentSz |-> pkcs7.contentSz,
                   head |-> NoHead, foot |-> NoFoot,
                   fault |-> fault, rc |-> r, altered |-> contentAltered])
            /\ pc' = IF r # 0 THEN "s_ret" ELSE next
            /\ pkcs7' = IF r # 0 THEN pkcs7 ELSE [pkcs7 EXCEPT !.inited = FALSE]
            /\ steps' = steps \o
                  ( << <<here, "wc_PKCS7_VerifySignedData", r>> >>
                    \o (IF r # 0 THEN <<>>
                        ELSE << <<here, "wc_PKCS7_Free", 0>> >>) )
    /\ UNCHANGED <<envVars, dev, keyVars, hashVars, envlVars, fileVars,
                   benchVars>>

\* Test verify with TPM: rc = wc_PKCS7_Init(&pkcs7, NULL, tpmDevId);
S_Init2 ==
    /\ prog = "pkcs7" /\ pc = "s_init2"
    /\ PkInit("s_init2", "tpmDevId", "s_cert2", "s_ret")

\* rc = wc_PKCS7_InitWithCert(&pkcs7, NULL, 0);
S_Cert2 ==
    /\ prog = "pkcs7" /\ pc = "s_cert2"
    /\ PkInitWithCert("s_cert2", "s_verify1", "s_ret")

S_VerifyTpm ==
    /\ prog = "pkcs7" /\ pc = "s_verify1"
    /\ SvVerify("s_verify1", "s_init3")

\* Test verify with software: rc = wc_PKCS7_Init(&pkcs7, NULL, INVALID_DEVID);
S_Init3 ==
    /\ prog = "pkcs7" /\ pc = "s_init3"
    /\ PkInit("s_init3", "INVALID_DEVID", "s_cert3", "s_ret")

\* rc = wc_PKCS7_InitWithCert(&pkcs7, NULL, 0);
S_Cert3 ==
    /\ prog = "pkcs7" /\ pc = "s_cert3"
    /\ PkInitWithCert("s_cert3", "s_verify2", "s_ret")

S_VerifySw ==
    /\ prog = "pkcs7" /\ pc = "s_verify2"
    /\ SvVerify("s_verify2", "s_ret")

\* exit: return rc;  and in the caller:
\* rc = PKCS7_SignVerify(&dev, tpmDevId, &der); if (rc != 0) goto exit;
S_Return ==
    /\ prog = "pkcs7" /\ pc = "s_ret"
    /\ pc' = IF rc # 0 THEN "x_exit" ELSE "e_hashinit"
    /\ steps' = Append(steps, <<"s_ret", "PKCS7_SignVerify", rc>>)
    /\ UNCHANGED <<envVars, rc, dev, keyVars, hashVars, envlVars, pkVars,
                   fileVars, benchVars>>

(* ---------------------------------------------------------------------- *)
(* PKCS7_SignVerifyEx (pkcs7.c:92-227)                                     *)
(* ---------------------------------------------------------------------- *)

\* XMEMSET(&pkcs7, 0, sizeof(pkcs7)); rc = wc_HashInit(&hash, hashType);
\* if (rc == 0) { do { ... } ... } if (rc != 0) goto exit;
E_HashInit ==
    /\ prog = "pkcs7" /\ pc = "e_hashinit"
    /\ \E r \in RcWc :
        /\ rc' = r
        /\ hash' = IF r = 0 THEN [st |-> "Active", fed |-> <<>>, chunks |-> <<>>]
                   ELSE hash
        /\ pc' = IF r # 0 THEN "e_ret" ELSE "e_getchunk"
        /\ steps' = Append(steps, <<"e_hashinit", "wc_HashInit", r>>)
    /\ pkcs7' = [inited |-> FALSE, devId |-> "none", contentSz |-> 0]
    /\ UNCHANGED <<envVars, dev, keyVars, offset, dataChunkSz, dataChunk,
                   hashBuf, hashPass, envlVars, verifyLog, fileVars,
                   benchVars>>

\* dataChunkSz = GetMyData(dataChunk, sizeof(dataChunk), offset);
\* if (dataChunkSz == 0) break;
E_GetChunk ==
    /\ prog = "pkcs7" /\ pc = "e_getchunk"
    /\ LET g == GetMyData(FALSE, dataChunk, chunkCap, offset)
       IN  /\ dataChunkSz' = g.ret
           /\ dataChunk' = g.buffer
           /\ pc' = IF g.ret = 0 THEN "e_hashfinal" ELSE "e_hashupdate"
           /\ steps' = Append(steps, <<"e_getchunk", "GetMyData", g.ret>>)
    /\ UNCHANGED <<envVars, rc, dev, keyVars, offset, hash, hashBuf, hashPass,
                   envlVars, pkVars, fileVars, benchVars>>

\* mutant: offset advances by one byte, not by the size of the chunk
E_HashUpdate_StepOne ==
    /\ prog = "pkcs7" /\ pc = "e_hashupdate"
    /\ \E r \in RcWc :
        /\ rc' = r
        /\ hash' = IF r = 0
                   THEN [hash EXCEPT
                           !.fed = @ \o SubSeq(dataChunk, 1, dataChunkSz),
                           !.chunks = Append(@, <<offset, dataChunkSz>>)]
                   ELSE hash
        /\ pc' = IF r = 0 THEN "e_getchunk" ELSE "e_hashfree"
        /\ steps' = Append(steps, <<"e_hashupdate", "wc_HashUpdate", r>>)
    /\ offset' = Add32(offset, 1)
    /\ UNCHANGED <<envVars, dev, keyVars, dataChunkSz, dataChunk, hashBuf,
                   hashPass, envlVars, pkVars, fileVars, benchVars>>

\* rc = wc_HashUpdate(&hash, hashType, dataChunk, dataChunkSz);
\* offset += dataChunkSz;  } while (rc == 0);
E_HashUpdate ==
    /\ prog = "pkcs7" /\ pc = "e_hashupdate"
    /\ \E r \in RcWc :
        /\ rc' = r
        /\ hash' = IF r = 0
                   THEN [hash EXCEPT
                           !.fed = @ \o SubSeq(dataChunk, 1, dataChunkSz),
                           !.chunks = Append(@, <<offset, dataChunkSz>>)]
                   ELSE hash
        /\ pc' = IF r = 0 THEN "e_getchunk" ELSE "e_hashfree"
        /\ steps' = Append(steps, <<"e_hashupdate", "wc_HashUpdate", r>>)
    /\ offset' = Add32(offset, dataChunkSz)
    /\ UNCHANGED <<envVars, dev, keyVars, dataChunkSz, dataChunk, hashBuf,
                   hashPass, envlVars, pkVars, fileVars, benchVars>>

\* if (rc == 0) { rc = wc_HashFinal(&hash, hashType, hashBuf); }
E_HashFinal ==
    /\ prog = "pkcs7" /\ pc = "e_hashfinal"
    /\ IF rc = 0
       THEN \E r \in RcWc :
              /\ rc' = r
              /\ hash' = IF r = 0 THEN [hash EXCEPT !.st = "Final"] ELSE hash
              /\ hashBuf' = IF r = 0
                            THEN [valid |-> TRUE, over |-> hash.fed,
                                  pass |-> hashPass + 1]
                            ELSE hashBuf
              /\ hashPass' = IF r = 0 THEN hashPass + 1 ELSE hashPass
              /\ steps' = Append(steps, <<"e_hashfinal", "wc_HashFinal", r>>)
       ELSE UNCHANGED <<rc, hash, hashBuf, hashPass, steps>>
    /\ pc' = "e_hashfree"
    /\ UNCHANGED <<envVars, dev, keyVars, offset, dataChunkSz, dataChunk,
                   envlVars, pkVars, fileVars, benchVars>>

\* mutant: the total size is not fetched after the digest loop, so
\* dataChunkSz keeps the 0 that ended the loop
E_HashFree_NoTotal ==
    /\ prog = "pkcs7" /\ pc = "e_hashfree"
    /\ hash' = [hash EXCEPT !.st = "Freed"]
    /\ steps' = Append(steps, <<"e_hashfree", "wc_HashFree", 0>>)
    /\ pc' = IF rc # 0 THEN "e_ret" ELSE "e_init1"
    /\ UNCHANGED <<envVars, rc, dev, keyVars, offset, dataChunkSz, dataChunk,
                   hashBuf, hashPass, envlVars, pkVars, fileVars, benchVars>>

\* mutant: the result of the digest computation is not checked
E_HashFree_NoCheck ==
    /\ prog = "pkcs7" /\ pc = "e_hashfree"
    /\ hash' = [hash EXCEPT !.st = "Freed"]
    /\ steps' = Append(steps, <<"e_hashfree", "wc_HashFree", 0>>)
    /\ pc' = "e_init1"
    /\ dataChunkSz' = GetMyData(TRUE, <<>>, 0, 0).ret
    /\ UNCHANGED <<envVars, rc, dev, keyVars, offset, dataChunk, hashBuf,
                   hashPass, envlVars, pkVars, fileVars, benchVars>>

\* wc_HashFree(&hash, hashType); }  if (rc != 0) goto exit;
\* dataChunkSz = GetMyData(NULL, 0, 0); /* get total size */
E_HashFree ==
    /\ prog = "pkcs7" /\ pc = "e_hashfree"
    /\ hash' = [hash EXCEPT !.st = "Freed"]
    /\ steps' = Append(steps, <<"e_hashfree", "wc_HashFree", 0>>)
    /\ IF rc # 0
       THEN /\ pc' = "e_ret"
            /\ UNCHANGED dataChunkSz
       ELSE /\ pc' = "e_init1"
            /\ dataChunkSz' = GetMyData(TRUE, <<>>, 0, 0).ret
    /\ UNCHANGED <<envVars, rc, dev, keyVars, offset, dataChunk, hashBuf,
                   hashPass, envlVars, pkVars, fileVars, benchVars>>

\* rc = wc_PKCS7_Init(&pkcs7, NULL, tpmDevId);
E_Init1 ==
    /\ prog = "pkcs7" /\ pc = "e_init1"
    /\ PkInit("e_init1", "tpmDevId", "e_cert1", "e_ret")

\* rc = wc_PKCS7_InitWithCert(&pkcs7, der->buffer, der->size);
E_Cert1 ==
    /\ prog = "pkcs7" /\ pc = "e_cert1"
    /\ PkInitWithCert("e_cert1", "e_encode", "e_ret")

\* pkcs7.contentSz = dataChunkSz; ... outputHeadSz = sizeof(outputHead);
\* outputFootSz = sizeof(outputFoot);
\* rc = wc_PKCS7_EncodeSignedData_ex(&pkcs7, hashBuf, hashSz, outputHead,
\*     &outputHeadSz, outputFoot, &outputFootSz);
\* if (rc != 0) goto exit; wc_PKCS7_Free(&pkcs7);
\* the header needs hs bytes and the footer fs: the call fails with BUFFER_E
\* when one does not fit its capacity; it signs hashBuf with rsaKey through
\* the crypto callback
EncodeSignedData_ex(headCap, footCap) ==
    /\ \E fault \in RcWc, hs \in 1..(MaxPkcs7Size + 1),
          fs \in 1..(MaxPkcs7Size + 1) :
        LET small == hs > headCap \/ fs > footCap
            r == IF fault # 0 THEN fault ELSE IF small THEN -132 ELSE 0
        IN  /\ (fault # 0 => hs = 1 /\ fs = 1)
            /\ (small => hs + fs = MaxPkcs7Size + 2)
            /\ rc' = r
            /\ UseKey("wc_PKCS7_EncodeSignedData_ex", "rsaKey")
            /\ encodeLog' = Append(encodeLog,
                  [fn |-> "PKCS7_SignVerifyEx", digest |-> hashBuf,
                   contentSz |-> dataChunkSz, rc |-> r,
                   headCap |-> headCap, footCap |-> footCap,
                   headNeed |-> hs, footNeed |-> fs])
            /\ IF r # 0
               THEN /\ pc' = "e_ret"
                    /\ pkcs7' = [pkcs7 EXCEPT !.contentSz = dataChunkSz]
                    /\ steps' = Append(steps,
                          <<"e_encode", "wc_PKCS7_EncodeSignedData_ex", r>>)
                    /\ UNCHANGED <<outputHead, outputFoot>>
               ELSE /\ pc' = "e_fopen"
                    /\ pkcs7' = [pkcs7 EXCEPT !.contentSz = dataChunkSz,
                                              !.inited = FALSE]
                    /\ outputHead' = [valid |-> TRUE, sz |-> hs,
                                      contentSz |-> dataChunkSz,
                                      digest |-> hashBuf.over]
                    /\ outputFoot' = [valid |-> TRUE, sz |-> fs,
                                      sig |-> hashBuf.over]
                    /\ steps' = steps \o
                          << <<"e_encode", "wc_PKCS7_EncodeSignedData_ex", r>>,
                             <<"e_encode", "wc_PKCS7_Free", 0>> >>
    /\ UNCHANGED <<envVars, dev, key, unloads, badUnload, hashVars, output,
                   verifyLog, fileVars, benchVars>>

\* mutant: the capacities passed are one larger than the buffers
E_Encode_WrongCap ==
    /\ prog = "pkcs7" /\ pc = "e_encode"
    /\ EncodeSignedData_ex(MaxPkcs7Size + 1, MaxPkcs7Size + 1)

\* outputHeadSz = (int)sizeof(outputHead);
\* outputFootSz = (int)sizeof(outputFoot);
\* rc = wc_PKCS7_EncodeSignedData_ex(..., outputHead, &outputHeadSz,
\*     outputFoot, &outputFootSz);
E_Encode ==
    /\ prog = "pkcs7" /\ pc = "e_encode"
    /\ EncodeSignedData_ex(MaxPkcs7Size, MaxPkcs7Size)

\* pemFile = XFOPEN("./examples/pkcs7/pkcs7tpmsignedex.p7s", "wb");
\* if (pemFile != XBADFILE) { ... }
E_FOpen ==
    /\ prog = "pkcs7" /\ pc = "e_fopen"
    /\ \E ok \in BOOLEAN :
        /\ pemFile' = [st |-> IF ok THEN "Open" ELSE "OpenFailed",
                       data |-> <<>>]
        /\ pc' = IF ok THEN "e_whead" ELSE "e_init2"
        /\ steps' = Append(steps, <<"e_fopen", "XFOPEN",
                                    IF ok THEN 0 ELSE -1>>)
    /\ UNCHANGED <<envVars, rc, dev, keyVars, hashVars, envlVars, pkVars,
                   der, benchVars>>

\* mutant: a short write of the header leaves without closing the file
E_WriteHead_NoClose ==
    /\ prog = "pkcs7" /\ pc = "e_whead"
    /\ \E w \in {outputHead.sz, outputHead.sz - 1} :
        /\ pemFile' = [st |-> "Open",
                       data |-> pemFile.data
                                \o SubSeq(Bytes("head", outputHead.sz), 1, w)]
        /\ rc' = IF w # outputHead.sz THEN -1 ELSE w
        /\ pc' = IF w # outputHead.sz THEN "e_ret" ELSE "e_wbody"
        /\ steps' = Append(steps, <<"e_whead", "XFWRITE",
                                    IF w = outputHead.sz THEN 0 ELSE -1>>)
    /\ UNCHANGED <<envVars, dev, keyVars, hashVars, envlVars, pkVars, der,
                   benchVars>>

\* rc = (int)XFWRITE(outputHead, 1, outputHeadSz, pemFile);
\* if (rc != outputHeadSz) { XFCLOSE(pemFile); rc = -1; goto exit; }
E_WriteHead ==
    /\ prog = "pkcs7" /\ pc = "e_whead"
    /\ \E w \in {outputHead.sz, outputHead.sz - 1} :
        /\ pemFile' = [st |-> IF w # outputHead.sz THEN "Closed" ELSE "Open",
                       data |-> pemFile.data
                                \o SubSeq(Bytes("head", outputHead.sz), 1, w)]
        /\ rc' = IF w # outputHead.sz THEN -1 ELSE w
        /\ pc' = IF w # outputHead.sz THEN "e_ret" ELSE "e_wbody"
        /\ steps' = steps \o
              ( << <<"e_whead", "XFWRITE",
                     IF w = outputHead.sz THEN 0 ELSE -1>> >>
                \o (IF w # outputHead.sz
                    THEN << <<"e_whead", "XFCLOSE", 0>> >> ELSE <<>>) )
    /\ UNCHANGED <<envVars, dev, keyVars, hashVars, envlVars, pkVars, der,
                   benchVars>>

\* one iteration of the body loop:
\* do { dataChunkSz = GetMyData(dataChunk, sizeof(dataChunk), offset);
\*      if (dataChunkSz == 0) break;
\*      rc = (int)XFWRITE(dataChunk, 1, dataChunkSz, pemFile);
\*      if (rc != (int)dataChunkSz) { XFCLOSE(pemFile); rc = -1; goto exit; }
\*      offset += dataChunkSz;
\* } while (rc == 0);
E_WriteBody ==
    /\ prog = "pkcs7" /\ pc = "e_wbody"
    /\ LET g == GetMyData(FALSE, dataChunk, chunkCap, offset)
       IN  /\ dataChunkSz' = g.ret
           /\ dataChunk' = g.buffer
           /\ IF g.ret = 0
              THEN /\ pc' = "e_wfoot"
                   /\ steps' = Append(steps, <<"e_wbody", "GetMyData", 0>>)
                   /\ UNCHANGED <<rc, offset, pemFile>>
              ELSE \E w \in {g.ret, g.ret - 1} :
                   /\ pemFile' =
                        [st |-> IF w # g.ret THEN "Closed" ELSE "Open",
                         data |-> pemFile.data
                                  \o [k \in 1..w |-> <<"body", g.buffer[k]>>]]
                   /\ rc' = IF w # g.ret THEN -1 ELSE w
                   /\ offset' = IF w # g.ret THEN offset
                                ELSE Add32(offset, g.ret)
                   /\ pc' = IF w # g.ret THEN "e_ret"
                            ELSE IF w = 0 THEN "e_wbody" ELSE "e_wfoot"
                   /\ steps' = steps \o
                        ( << <<"e_wbody", "GetMyData", g.ret>>,
                             <<"e_wbody", "XFWRITE",
                               IF w = g.ret THEN 0 ELSE -1>> >>
                          \o (IF w # g.ret
                              THEN << <<"e_wbody", "XFCLOSE", 0>> >>
                              ELSE <<>>) )
    /\ UNCHANGED <<envVars, dev, keyVars, hash, hashBuf, hashPass, envlVars,
                   pkVars, der, benchVars>>

\* mutant: the total size is not fetched again after the body loop, so
\* dataChunkSz keeps the 0 that ended the loop
E_WriteFoot_NoTotal ==
    /\ prog = "pkcs7" /\ pc = "e_wfoot"
    /\ \E w \in {outputFoot.sz, outputFoot.sz - 1} :
        /\ pemFile' = [st |-> "Closed",
                       data |-> pemFile.data
                                \o SubSeq(Bytes("foot", outputFoot.sz), 1, w)]
        /\ rc' = IF w # outputFoot.sz THEN -1 ELSE w
        /\ pc' = IF w # outputFoot.sz THEN "e_ret" ELSE "e_init2"
        /\ steps' = steps \o << <<"e_wfoot", "XFWRITE",
                                  IF w = outputFoot.sz THEN 0 ELSE -1>>,
                                <<"e_wfoot", "XFCLOSE", 0>> >>
    /\ UNCHANGED <<envVars, dev, keyVars, hashVars, envlVars, pkVars, der,
                   benchVars>>

\* dataChunkSz = GetMyData(NULL, 0, 0); /* get total size */
\* rc = (int)XFWRITE(outputFoot, 1, outputFootSz, pemFile);
\* if (rc != outputFootSz) { XFCLOSE(pemFile); rc = -1; goto exit; }
\* XFCLOSE(pemFile);
E_WriteFoot ==
    /\ prog = "pkcs7" /\ pc = "e_wfoot"
    /\ dataChunkSz' = GetMyData(TRUE, <<>>, 0, 0).ret
    /\ \E w \in {outputFoot.sz, outputFoot.sz - 1} :
        /\ pemFile' = [st |-> "Closed",
                       data |-> pemFile.data
                                \o SubSeq(Bytes("foot", outputFoot.sz), 1, w)]
        /\ rc' = IF w # outputFoot.sz THEN -1 ELSE w
        /\ pc' = IF w # outputFoot.sz THEN "e_ret" ELSE "e_init2"
        /\ steps' = steps \o << <<"e_wfoot", "XFWRITE",
                                  IF w = outputFoot.sz THEN 0 ELSE -1>>,
                                <<"e_wfoot", "XFCLOSE", 0>> >>
    /\ UNCHANGED <<envVars, dev, keyVars, offset, dataChunk, hash, hashBuf,
                   hashPass, envlVars, pkVars, der, benchVars>>

\* pkcs7.contentSz = dataChunkSz;
\* rc = wc_PKCS7_VerifySignedData_ex(&pkcs7, hashBuf, hashSz, outputHead,
\*     outputHeadSz, outputFoot, outputFootSz);
\* if (rc != 0) goto exit; wc_PKCS7_Free(&pkcs7);
ExVerify(here, next) ==
    /\ \E fault \in RcWc :
        LET r == IF fault # 0 THEN fault
                 ELSE VerifySignedData_ex(hashBuf, dataChunkSz,
                                          outputHead, outputFoot)
        IN  /\ rc' = r
            /\ verifyLog' = Append(verifyLog,
                  [fn |-> "PKCS7_SignVerifyEx", devId |-> pkcs7.devId,
                   digest |-> hashBuf, contentSz |-> dataChunkSz,
                   head |-> outputHead, foot |-> outputFoot,
                   fault |-> fault, rc |-> r, altered |-> contentAltered])
            /\ pc' = IF r # 0 THEN "e_ret" ELSE next
            /\ pkcs7' = IF r # 0
                        THEN [pkcs7 EXCEPT !.contentSz = dataChunkSz]
                        ELSE [pkcs7 EXCEPT !.contentSz = dataChunkSz,
                                           !.inited = FALSE]
            /\ steps' = steps \o
                  ( << <<here, "wc_PKCS7_VerifySignedData_ex", r>> >>
                    \o (IF r # 0 THEN <<>>
                        ELSE << <<here, "wc_PKCS7_Free", 0>> >>) )
    /\ UNCHANGED <<envVars, dev, keyVars, hashVars, envlVars, fileVars,
                   benchVars>>

\* Test verify with TPM: rc = wc_PKCS7_Init(&pkcs7, NULL, tpmDevId);
E_Init2 ==
    /\ prog = "pkcs7" /\ pc = "e_init2"
    /\ PkInit("e_init2", "tpmDevId", "e_cert2", "e_ret")

\* rc = wc_PKCS7_InitWithCert(&pkcs7, NULL, 0);
E_Cert2 ==
    /\ prog = "pkcs7" /\ pc = "e_cert2"
    /\ PkInitWithCert("e_cert2", "e_verify1", "e_ret")

E_VerifyTpm ==
    /\ prog = "pkcs7" /\ pc = "e_verify1"
    /\ ExVerify("e_verify1", "e_init3")

\* Test verify with software: rc = wc_PKCS7_Init(&pkcs7, NULL, INVALID_DEVID);
E_Init3 ==
    /\ prog = "pkcs7" /\ pc = "e_init3"
    /\ PkInit("e_init3", "INVALID_DEVID", "e_cert3", "e_ret")

\* rc = wc_PKCS7_InitWithCert(&pkcs7, NULL, 0);
E_Cert3 ==
    /\ prog = "pkcs7" /\ pc = "e_cert3"
    /\ PkInitWithCert("e_cert3", "e_verify2", "e_ret")

E_VerifySw ==
    /\ prog = "pkcs7" /\ pc = "e_verify2"
    /\ ExVerify("e_verify2", "e_ret")

\* mutant: the routine releases the key itself when it fails
E_Return_Unloads ==
    /\ prog = "pkcs7" /\ pc = "e_ret"
    /\ pc' = "x_exit"
    /\ steps' = Append(steps, <<"e_ret", "PKCS7_SignVerifyEx", rc>>)
    /\ IF rc # 0
       THEN UnloadHandle("rsaKey", 0)
       ELSE UNCHANGED <<key, unloads, badUnload>>
    /\ UNCHANGED <<envVars, rc, dev, keyOps, hashVars, envlVars, pkVars,
                   fileVars, benchVars>>

\* exit: return rc;  and in the caller:
\* rc = PKCS7_SignVerifyEx(&dev, tpmDevId, &der); if (rc != 0) goto exit;
E_Return ==
    /\ prog = "pkcs7" /\ pc = "e_ret"
    /\ pc' = "x_exit"
    /\ steps' = Append(steps, <<"e_ret", "PKCS7_SignVerifyEx", rc>>)
    /\ UNCHANGED <<envVars, rc, dev, keyVars, hashVars, envlVars, pkVars,
                   fileVars, benchVars>>

NextPkcs7 ==
    \/ X_Init \/ X_SetCryptoDevCb \/ X_GetPrimaryStoragekey
    \/ X_GetKeyTemplate \/ X_GetRSAkey \/ X_DerOpen \/ X_DerLoad
    \/ S_Init1 \/ S_Cert1 \/ S_Encode \/ S_FOpen \/ S_FWrite
    \/ S_Init2 \/ S_Cert2 \/ S_VerifyTpm \/ S_Init3 \/ S_Cert3 \/ S_VerifySw
    \/ S_Return
    \/ E_HashInit \/ E_GetChunk \/ E_HashUpdate \/ E_HashFinal \/ E_HashFree
    \/ E_Init1 \/ E_Cert1 \/ E_Encode \/ E_FOpen \/ E_WriteHead
    \/ E_WriteBody \/ E_WriteFoot
    \/ E_Init2 \/ E_Cert2 \/ E_VerifyTpm \/ E_Init3 \/ E_Cert3 \/ E_VerifySw
    \/ E_Return
    \/ X_Exit \/ X_Cleanup

InitPkcs7 ==
    /\ myDataTotal \in 0..MaxTotal
    /\ chunkCap \in 1..MaxChunk
    /\ contentAltered = FALSE
    /\ GmIdle
    /\ RdIdle
    /\ ProgStart("pkcs7")

(* ---------------------------------------------------------------------- *)
(* Benchmark helpers (bench.c:48-58)                                       *)
(* ---------------------------------------------------------------------- *)

\* TPM_RC_COMMAND_CODE (0x143): the command is not supported
TPM_RC_COMMAND_CODE == 323

\* TPM_RC_HASH (0x083): the hash algorithm is not supported
TPM_RC_HASH == 131

\* number of bench_sym_aes calls of TPM2_Wrapper_Bench
NumAes == 12

\* number of bench_sym_hash calls of TPM2_Wrapper_Bench
NumHash == 4

\* what a wolfTPM2 call of the benchmark returns: 0, a negative error, a TPM
\* failure, unsupported command, unsupported hash, and unsupported hash
\* with the number of the parameter at fault (TPM_RC_P | TPM_RC_1 = 0x140)
RcBench == {0, -173, 257, TPM_RC_COMMAND_CODE, TPM_RC_HASH,
            TPM_RC_HASH + 320}

RECURSIVE BitAnd(_, _)
\* a & b of two naturals
BitAnd(a, b) ==
    IF a = 0 \/ b = 0 THEN 0
    ELSE (a % 2) * (b % 2) + 2 * BitAnd(a \div 2, b \div 2)

\* (rc & mask) of an int rc and a mask below 256: the low byte of the two's
\* complement of rc decides
AndMask(r, mask) == BitAnd(r % 256, mask)

\* the labels where a timed loop starts: bench_stats_start(&count, &start)
\* sets count to 0 just before
LoopHeads == {"b_rng", "a_encdec", "h_start", "b_rsagen", "b_rsaenc1",
              "b_rsadec1", "b_rsaenc2", "b_rsadec2", "b_eccgen", "b_sign",
              "b_verify", "b_ecdh"}

\* go to label l outside a timed loop
Enter(l) ==
    /\ pc' = l
    /\ count' = IF l \in LoopHeads THEN 0 ELSE count

\* } while (bench_stats_check(start, &count));  at the end of an iteration
\* of the loop that starts at head: count is incremented, the loop goes on
\* while less than TPM2_BENCH_DURATION_SEC has passed, else control
\* reaches next
LoopEnd(head, next) ==
    \E again \in BOOLEAN :
        /\ (again => count + 1 <= MaxIter)
        /\ pc' = IF again THEN head ELSE next
        /\ count' = IF ~again /\ next \in LoopHeads THEN 0 ELSE count + 1

\* what no step of the benchmark changes
benchFrame == <<envVars, steps, hashVars, envlVars, pkVars, fileVars>>

(* ---------------------------------------------------------------------- *)
(* bench_sym_aes (bench.c:154-184)                                         *)
(* ---------------------------------------------------------------------- *)

\* XMEMSET(&aesKey, 0, sizeof(aesKey));
\* rc = wolfTPM2_GetKeyTemplate_Symmetric(...); if (rc != 0) goto exit;
A_Template ==
    /\ prog = "bench" /\ pc = "a_tmpl"
    /\ \E r \in RcBench :
        /\ rc' = r
        /\ Enter(IF r # 0 THEN "a_exit" ELSE "a_create")
    /\ key' = [key EXCEPT !["aesKey"] = "Zeroed"]
    /\ unloads' = [unloads EXCEPT !["aesKey"] = 0]
    /\ UNCHANGED <<benchFrame, dev, badUnload, keyOps, gen, storageKey,
                   tolerated, aesIdx, hashIdx, tpmHash>>

\* mutant: the result of wolfTPM2_CreateAndLoadKey is not checked
A_CreateAndLoadKey_NoCheck ==
    /\ prog = "bench" /\ pc = "a_create"
    /\ \E r \in RcBench :
        /\ rc' = r
        /\ Enter("a_encdec")
        /\ IF r = 0 THEN LoadKey("aesKey") ELSE UNCHANGED <<key, unloads>>
    /\ UNCHANGED <<benchFrame, dev, badUnload, keyOps, gen, storageKey,
                   tolerated, aesIdx, hashIdx, tpmHash>>

\* rc = wolfTPM2_CreateAndLoadKey(dev, &aesKey, &storageKey->handle, ...);
\* if (rc != 0) goto exit;  bench_stats_start(&count, &start);
A_CreateAndLoadKey ==
    /\ prog = "bench" /\ pc = "a_create"
    /\ \E r \in RcBench :
        /\ rc' = r
        /\ Enter(IF r # 0 THEN "a_exit" ELSE "a_encdec")
        /\ IF r = 0 THEN LoadKey("aesKey") ELSE UNCHANGED <<key, unloads>>
    /\ UNCHANGED <<benchFrame, dev, badUnload, keyOps, gen, storageKey,
                   tolerated, aesIdx, hashIdx, tpmHash>>

\* do { rc = wolfTPM2_EncryptDecrypt(dev, &aesKey, ...);
\*      if (rc != 0) goto exit;
\* } while (bench_stats_check(start, &count));
A_EncryptDecrypt ==
    /\ prog = "bench" /\ pc = "a_encdec"
    /\ UseKey("wolfTPM2_EncryptDecrypt", "aesKey")
    /\ \E r \in RcBench :
        /\ rc' = r
        /\ IF r # 0 THEN Enter("a_exit") ELSE LoopEnd("a_encdec", "a_exit")
    /\ UNCHANGED <<benchFrame, dev, key, unloads, badUnload, gen, storageKey,
                   tolerated, aesIdx, hashIdx, tpmHash>>

\* exit: wolfTPM2_UnloadHandle(dev, &aesKey.handle); return rc;
\* and in the caller: if (rc != 0 && rc != TPM_RC_COMMAND_CODE) goto exit;
\* followed by the next bench_sym_aes call or the first bench_sym_hash call
A_Exit ==
    /\ prog = "bench" /\ pc = "a_exit"
    /\ \E r \in RcBench : UnloadHandle("aesKey", r)
    /\ tolerated' = IF rc = TPM_RC_COMMAND_CODE
                    THEN tolerated \cup {"aes"} ELSE tolerated
    /\ IF rc # 0 /\ rc # TPM_RC_COMMAND_CODE
       THEN /\ Enter("b_exit")
            /\ UNCHANGED <<aesIdx, hashIdx>>
       ELSE IF aesIdx < NumAes
       THEN /\ Enter("a_tmpl")
            /\ aesIdx' = aesIdx + 1
            /\ UNCHANGED hashIdx
       ELSE /\ Enter("h_start")
            /\ hashIdx' = 1
            /\ UNCHANGED aesIdx
    /\ UNCHANGED <<benchFrame, rc, dev, keyOps, tpmHash, gen, storageKey>>

(* ---------------------------------------------------------------------- *)
(* bench_sym_hash (bench.c:130-152)                                        *)
(* ---------------------------------------------------------------------- *)

\* rc = wolfTPM2_HashStart(dev, &hash, algo, ...); if (rc != 0) goto exit;
H_Start ==
    /\ prog = "bench" /\ pc = "h_start"
    /\ \E r \in RcBench :
        /\ rc' = r
        /\ tpmHash' = IF r = 0 THEN "Active" ELSE tpmHash
        /\ pc' = IF r # 0 THEN "h_ret" ELSE "h_update"
    /\ UNCHANGED <<benchFrame, dev, keyVars, count, gen, storageKey,
                   tolerated, aesIdx, hashIdx>>

\* mutant: the result of wolfTPM2_HashUpdate is not checked
H_Update_NoCheck ==
    /\ prog = "bench" /\ pc = "h_update"
    /\ \E r \in RcBench :
        /\ rc' = r
        /\ pc' = "h_finish"
    /\ UNCHANGED <<benchFrame, dev, keyVars, count, gen, storageKey,
                   tolerated, aesIdx, hashIdx, tpmHash>>

\* rc = wolfTPM2_HashUpdate(dev, &hash, in, inSz); if (rc != 0) goto exit;
H_Update ==
    /\ prog = "bench" /\ pc = "h_update"
    /\ \E r \in RcBench :
        /\ rc' = r
        /\ pc' = IF r # 0 THEN "h_ret" ELSE "h_finish"
    /\ UNCHANGED <<benchFrame, dev, keyVars, count, gen, storageKey,
                   tolerated, aesIdx, hashIdx, tpmHash>>

\* rc = wolfTPM2_HashFinish(dev, &hash, digest, &digestSz);
\* if (rc != 0) goto exit;  } while (bench_stats_check(start, &count));
H_Finish ==
    /\ prog = "bench" /\ pc = "h_finish"
    /\ \E r \in RcBench :
        /\ rc' = r
        /\ tpmHash' = IF r = 0 THEN "Finalized" ELSE "FinishFailed"
        /\ IF r # 0
           THEN pc' = "h_ret" /\ UNCHANGED count
           ELSE LoopEnd("h_start", "h_ret")
    /\ UNCHANGED <<benchFrame, dev, keyVars, gen, storageKey,
                   tolerated, aesIdx, hashIdx>>

\* mutant: only the code TPM_RC_HASH itself is passed over
H_Return_Equal ==
    /\ prog = "bench" /\ pc = "h_ret"
    /\ tolerated' = IF rc = TPM_RC_HASH
                    THEN tolerated \cup {"hash"} ELSE tolerated
    /\ IF rc # 0 /\ rc # TPM_RC_HASH
       THEN /\ Enter("b_exit")
            /\ UNCHANGED hashIdx
       ELSE IF hashIdx < NumHash
       THEN /\ Enter("h_start")
            /\ hashIdx' = hashIdx + 1
       ELSE /\ Enter("b_rsatmpl")
            /\ UNCHANGED hashIdx
    /\ UNCHANGED <<benchFrame, rc, dev, keyVars, aesIdx, tpmHash, gen,
                   storageKey>>

\* exit: return rc;  and in the caller:
\* if (rc != 0 && (rc & TPM_RC_HASH) != TPM_RC_HASH) goto exit;
\* followed by the next bench_sym_hash call or the RSA key template
H_Return ==
    /\ prog = "bench" /\ pc = "h_ret"
    /\ tolerated' = IF rc # 0 /\ AndMask(rc, TPM_RC_HASH) = TPM_RC_HASH
                    THEN tolerated \cup {"hash"} ELSE tolerated
    /\ IF rc # 0 /\ AndMask(rc, TPM_RC_HASH) # TPM_RC_HASH
       THEN /\ Enter("b_exit")
            /\ UNCHANGED hashIdx
       ELSE IF hashIdx < NumHash
       THEN /\ Enter("h_start")
            /\ hashIdx' = hashIdx + 1
       ELSE /\ Enter("b_rsatmpl")
            /\ UNCHANGED hashIdx
    /\ UNCHANGED <<benchFrame, rc, dev, keyVars, aesIdx, tpmHash, gen,
                   storageKey>>

(* ---------------------------------------------------------------------- *)
(* TPM2_Wrapper_Bench (bench.c:190-453)                                    *)
(* ---------------------------------------------------------------------- *)

\* a wolfTPM2 call at label here outside a loop: on failure goto exit
BCall(here, next) ==
    /\ prog = "bench" /\ pc = here
    /\ \E r \in RcBench :
        /\ rc' = r
        /\ Enter(IF r # 0 THEN "b_exit" ELSE next)

\* one iteration of a timed loop whose body is one key operation op on key
\* variable k:  do { rc = op(&dev, &k, ...); if (rc != 0) goto exit;
\*              } while (bench_stats_check(start, &count));
BKeyLoop(here, op, k, next) ==
    /\ UseKey(op, k)
    /\ \E r \in RcBench :
        /\ rc' = r
        /\ IF r # 0 THEN Enter("b_exit") ELSE LoopEnd(here, next)
    /\ UNCHANGED <<benchFrame, dev, key, unloads, badUnload, gen, storageKey,
                   tolerated, aesIdx, hashIdx, tpmHash>>

\* mutant: the previous key is unloaded from the third iteration on only
BGenUnload_Late(here, k, next) ==
    /\ IF count > 1
       THEN \E r \in RcBench :
              /\ rc' = r
              /\ UnloadHandle(k, r)
              /\ gen' = [gen EXCEPT !.unloads = @ + 1]
              /\ pc' = IF r # 0 THEN "b_exit" ELSE next
       ELSE /\ pc' = next
            /\ UNCHANGED <<rc, key, unloads, badUnload, gen>>
    /\ UNCHANGED <<benchFrame, dev, keyOps, count, aesIdx, hashIdx, tpmHash,
                   tolerated, storageKey>>

\* if (count > 0) { rc = wolfTPM2_UnloadHandle(&dev, &k.handle);
\*                  if (rc != 0) goto exit; }
\* at the top of an iteration of a key generation loop
BGenUnload(here, k, next) ==
    /\ IF count > 0
       THEN \E r \in RcBench :
              /\ rc' = r
              /\ UnloadHandle(k, r)
              /\ gen' = [gen EXCEPT !.unloads = @ + 1]
              /\ pc' = IF r # 0 THEN "b_exit" ELSE next
       ELSE /\ pc' = next
            /\ UNCHANGED <<rc, key, unloads, badUnload, gen>>
    /\ UNCHANGED <<benchFrame, dev, keyOps, count, aesIdx, hashIdx, tpmHash,
                   tolerated, storageKey>>

\* rc = wolfTPM2_CreateAndLoadKey(&dev, &k, &storageKey.handle, ...);
\* if (rc != 0) goto exit;  } while (bench_stats_check(start, &count));
BGenCreate(here, k, head, next) ==
    /\ \E r \in RcBench :
        /\ rc' = r
        /\ IF r = 0 THEN LoadKey(k) ELSE UNCHANGED <<key, unloads>>
        /\ gen' = IF r = 0 THEN [gen EXCEPT !.creates = @ + 1] ELSE gen
        /\ IF r # 0 THEN Enter("b_exit") ELSE LoopEnd(head, next)
    /\ UNCHANGED <<benchFrame, dev, badUnload, keyOps, storageKey,
                   tolerated, aesIdx, hashIdx, tpmHash>>

\* rc = wolfTPM2_UnloadHandle(&dev, &k.handle); if (rc != 0) goto exit;
BUnload(here, k, next) ==
    /\ \E r \in RcBench :
        /\ rc' = r
        /\ UnloadHandle(k, r)
        /\ Enter(IF r # 0 THEN "b_exit" ELSE next)
    /\ UNCHANGED <<benchFrame, dev, keyOps, gen, storageKey,
                   tolerated, aesIdx, hashIdx, tpmHash>>

\* what a step of the storage key set-up leaves alone
probeFrame == <<benchFrame, dev, keyVars, gen, tolerated, aesIdx, hashIdx,
               tpmHash>>

\* what a step that touches no key leaves alone
noKeyFrame == <<benchFrame, dev, keyVars, gen, storageKey, tolerated,
               aesIdx, hashIdx, tpmHash>>

\* rc = wolfTPM2_Init(&dev, TPM2_IoCb, userCtx); if (rc != 0) return rc;
B_Init ==
    /\ prog = "bench" /\ pc = "b_init"
    /\ \E r \in RcBench :
        /\ rc' = r
        /\ dev' = IF r = 0 THEN "Open" ELSE dev
        /\ pc' = IF r # 0 THEN "done" ELSE "b_readpub"
    /\ UNCHANGED <<benchFrame, keyVars, benchVars>>

\* rc = wolfTPM2_ReadPublicKey(&dev, &storageKey, TPM2_DEMO_STORAGE_KEY_HANDLE);
\* if (rc != 0) { create the key } else { set storageKey.handle.auth }
B_ReadPublicKey ==
    /\ prog = "bench" /\ pc = "b_readpub"
    /\ \E r \in RcBench :
        /\ rc' = r
        /\ Enter(IF r # 0 THEN "b_srktmpl" ELSE "b_rng")
        /\ storageKey' = [storageKey EXCEPT
                            !.probe = IF r # 0 THEN "missing" ELSE "found",
                            !.auth = (r = 0)]
    /\ UNCHANGED probeFrame

\* rc = wolfTPM2_GetKeyTemplate_RSA(&publicTemplate, ...);
B_SrkTemplate ==
    /\ BCall("b_srktmpl", "b_srkcreate")
    /\ UNCHANGED <<probeFrame, storageKey>>

\* rc = wolfTPM2_CreatePrimaryKey(&dev, &storageKey, TPM_RH_OWNER, ...);
B_CreatePrimaryKey ==
    /\ BCall("b_srkcreate", "b_srkstore")
    /\ storageKey' = [storageKey EXCEPT !.creates = @ + 1,
                                        !.created = (rc' = 0)]
    /\ UNCHANGED probeFrame

\* mutant: the result of wolfTPM2_NVStoreKey is not checked
B_NVStoreKey_NoCheck ==
    /\ prog = "bench" /\ pc = "b_srkstore"
    /\ \E r \in RcBench :
        /\ rc' = r
        /\ Enter("b_rng")
    /\ storageKey' = [storageKey EXCEPT !.stores = @ + 1,
                                        !.stored = (rc' = 0)]
    /\ UNCHANGED probeFrame

\* rc = wolfTPM2_NVStoreKey(&dev, TPM_RH_OWNER, &storageKey, ...);
\* if (rc != 0) goto exit;
B_NVStoreKey ==
    /\ BCall("b_srkstore", "b_rng")
    /\ storageKey' = [storageKey EXCEPT !.stores = @ + 1,
                                        !.stored = (rc' = 0)]
    /\ UNCHANGED probeFrame

\* do { rc = wolfTPM2_GetRandom(&dev, message.buffer, ...);
\*      if (rc != 0) goto exit; } while (bench_stats_check(start, &count));
\* followed by the first bench_sym_aes call
B_GetRandom ==
    /\ prog = "bench" /\ pc = "b_rng"
    /\ \E r \in RcBench :
        /\ rc' = r
        /\ IF r # 0
           THEN Enter("b_exit") /\ UNCHANGED aesIdx
           ELSE \E again \in BOOLEAN :
                  /\ (again => count + 1 <= MaxIter)
                  /\ pc' = IF again THEN "b_rng" ELSE "a_tmpl"
                  /\ count' = count + 1
                  /\ aesIdx' = IF again THEN aesIdx ELSE 1
    /\ UNCHANGED <<benchFrame, dev, keyVars, hashIdx, tpmHash, tolerated,
                   gen, storageKey>>

\* rc = wolfTPM2_GetKeyTemplate_RSA(&publicTemplate, ...);
\* if (rc != 0) goto exit;  bench_stats_start(&count, &start);
B_RsaTemplate ==
    /\ BCall("b_rsatmpl", "b_rsagen")
    /\ gen' = [creates |-> 0, unloads |-> 0]
    /\ UNCHANGED <<benchFrame, dev, keyVars, storageKey, tolerated, aesIdx,
                   hashIdx, tpmHash>>

\* RSA key generation loop (bench.c:315-323)
B_RsaGenUnload ==
    /\ prog = "bench" /\ pc = "b_rsagen"
    /\ BGenUnload("b_rsagen", "rsaKey", "b_rsagencreate")

B_RsaGenCreate ==
    /\ prog = "bench" /\ pc = "b_rsagencreate"
    /\ BGenCreate("b_rsagencreate", "rsaKey", "b_rsagen", "b_rsaenc1")

\* RSA encrypt / decrypt, no pad (bench.c:330-346)
B_RsaEncrypt ==
    /\ prog = "bench" /\ pc = "b_rsaenc1"
    /\ BKeyLoop("b_rsaenc1", "wolfTPM2_RsaEncrypt", "rsaKey", "b_rsadec1")

B_RsaDecrypt ==
    /\ prog = "bench" /\ pc = "b_rsadec1"
    /\ BKeyLoop("b_rsadec1", "wolfTPM2_RsaDecrypt", "rsaKey", "b_rsaenc2")

\* RSA encrypt / decrypt, OAEP pad (bench.c:353-369)
B_RsaEncryptOaep ==
    /\ prog = "bench" /\ pc = "b_rsaenc2"
    /\ BKeyLoop("b_rsaenc2", "wolfTPM2_RsaEncrypt", "rsaKey", "b_rsadec2")

B_RsaDecryptOaep ==
    /\ prog = "bench" /\ pc = "b_rsadec2"
    /\ BKeyLoop("b_rsadec2", "wolfTPM2_RsaDecrypt", "rsaKey", "b_rsaunload")

\* rc = wolfTPM2_UnloadHandle(&dev, &rsaKey.handle); (bench.c:371-372)
B_RsaUnload ==
    /\ prog = "bench" /\ pc = "b_rsaunload"
    /\ BUnload("b_rsaunload", "rsaKey", "b_ecctmpl")

\* rc = wolfTPM2_GetKeyTemplate_ECC(..., TPM_ALG_ECDSA); (bench.c:376-380)
B_EccTemplate ==
    /\ BCall("b_ecctmpl", "b_eccgen")
    /\ gen' = [creates |-> 0, unloads |-> 0]
    /\ UNCHANGED <<benchFrame, dev, keyVars, storageKey, tolerated, aesIdx,
                   hashIdx, tpmHash>>

\* ECC key generation loop (bench.c:382-390)
B_EccGenUnload ==
    /\ prog = "bench" /\ pc = "b_eccgen"
    /\ BGenUnload("b_eccgen", "eccKey", "b_eccgencreate")

B_EccGenCreate ==
    /\ prog = "bench" /\ pc = "b_eccgencreate"
    /\ BGenCreate("b_eccgencreate", "eccKey", "b_eccgen", "b_sign")

\* ECDSA sign and verify (bench.c:397-412)
B_SignHash ==
    /\ prog = "bench" /\ pc = "b_sign"
    /\ BKeyLoop("b_sign", "wolfTPM2_SignHash", "eccKey", "b_verify")

B_VerifyHash ==
    /\ prog = "bench" /\ pc = "b_verify"
    /\ BKeyLoop("b_verify", "wolfTPM2_VerifyHash", "eccKey", "b_eccunload")

\* rc = wolfTPM2_UnloadHandle(&dev, &eccKey.handle); (bench.c:414-415)
B_EccUnload ==
    /\ prog = "bench" /\ pc = "b_eccunload"
    /\ BUnload("b_eccunload", "eccKey", "b_ecdhtmpl")

\* rc = wolfTPM2_GetKeyTemplate_ECC(..., TPM_ALG_ECDH); (bench.c:419-423)
B_EcdhTemplate ==
    /\ BCall("b_ecdhtmpl", "b_ecdhcreate")
    /\ UNCHANGED noKeyFrame

\* rc = wolfTPM2_CreateAndLoadKey(&dev, &eccKey, ...); if (rc != 0) goto exit;
\* bench_stats_start(&count, &start);
B_EcdhCreate ==
    /\ prog = "bench" /\ pc = "b_ecdhcreate"
    /\ \E r \in RcBench :
        /\ rc' = r
        /\ IF r = 0 THEN LoadKey("eccKey") ELSE UNCHANGED <<key, unloads>>
        /\ Enter(IF r # 0 THEN "b_exit" ELSE "b_ecdh")
    /\ UNCHANGED <<benchFrame, dev, badUnload, keyOps, gen, storageKey,
                   tolerated, aesIdx, hashIdx, tpmHash>>

\* ECDH shared secret loop (bench.c:430-435)
B_ECDHGen ==
    /\ prog = "bench" /\ pc = "b_ecdh"
    /\ BKeyLoop("b_ecdh", "wolfTPM2_ECDHGen", "eccKey", "b_ecdhunload")

\* rc = wolfTPM2_UnloadHandle(&dev, &eccKey.handle); (bench.c:438-439)
B_EcdhUnload ==
    /\ prog = "bench" /\ pc = "b_ecdhunload"
    /\ BUnload("b_ecdhunload", "eccKey", "b_exit")

\* exit: wolfTPM2_UnloadHandle(&dev, &rsaKey.handle);
B_ExitUnloadRsa ==
    /\ prog = "bench" /\ pc = "b_exit"
    /\ \E r \in RcBench : UnloadHandle("rsaKey", r)
    /\ pc' = "b_exit2"
    /\ UNCHANGED <<benchFrame, rc, dev, keyOps, benchVars>>

\* wolfTPM2_UnloadHandle(&dev, &eccKey.handle);
B_ExitUnloadEcc ==
    /\ prog = "bench" /\ pc = "b_exit2"
    /\ \E r \in RcBench : UnloadHandle("eccKey", r)
    /\ pc' = "b_cleanup"
    /\ UNCHANGED <<benchFrame, rc, dev, keyOps, benchVars>>

\* wolfTPM2_Cleanup(&dev); return rc;
B_Cleanup ==
    /\ prog = "bench" /\ pc = "b_cleanup"
    /\ dev' = "CleanedUp"
    /\ pc' = "done"
    /\ UNCHANGED <<benchFrame, rc, keyVars, benchVars>>

NextBench ==
    \/ B_Init \/ B_ReadPublicKey \/ B_SrkTemplate \/ B_CreatePrimaryKey
    \/ B_NVStoreKey \/ B_GetRandom
    \/ A_Template \/ A_CreateAndLoadKey \/ A_EncryptDecrypt \/ A_Exit
    \/ H_Start \/ H_Update \/ H_Finish \/ H_Return
    \/ B_RsaTemplate \/ B_RsaGenUnload \/ B_RsaGenCreate
    \/ B_RsaEncrypt \/ B_RsaDecrypt \/ B_RsaEncryptOaep \/ B_RsaDecryptOaep
    \/ B_RsaUnload
    \/ B_EccTemplate \/ B_EccGenUnload \/ B_EccGenCreate
    \/ B_SignHash \/ B_VerifyHash \/ B_EccUnload
    \/ B_EcdhTemplate \/ B_EcdhCreate \/ B_ECDHGen \/ B_EcdhUnload
    \/ B_ExitUnloadRsa \/ B_ExitUnloadEcc \/ B_Cleanup

InitBench ==
    /\ myDataTotal = 0
    /\ chunkCap = 1
    /\ contentAltered = FALSE
    /\ GmIdle
    /\ RdIdle
    /\ ProgStart("bench")

(* ---------------------------------------------------------------------- *)
(* The two programs                                                        *)
(* ---------------------------------------------------------------------- *)

Init == InitPkcs7 \/ InitBench

Next == NextPkcs7 \/ NextBench

Spec == Init /\ [][Next]_vars

(* ---------------------------------------------------------------------- *)
(* The content changing behind the program's back                          *)
(* ---------------------------------------------------------------------- *)

\* the data GetMyData stands for ("in real case would populate data here")
\* is changed by its owner after the envelope was built: its last byte is
\* no longer the one that was digested
AlterContent ==
    /\ prog = "pkcs7"
    /\ outputHead.valid
    /\ pc # "done"
    /\ myDataTotal > 0
    /\ ~contentAltered
    /\ contentAltered' = TRUE
    /\ UNCHANGED <<cfgVars, gmVars, rdVars, progVars>>

NextTamper == Next \/ AlterContent

SpecTamper == Init /\ [][NextTamper]_vars

(* ====================================================================== *)
(* Claims                                                                  *)
(* ====================================================================== *)

\* the verify calls PKCS7_SignVerifyEx made so far
ExVerifies == { i \in 1..Len(verifyLog) :
                  verifyLog[i].fn = "PKCS7_SignVerifyEx" }

\* the encode calls PKCS7_SignVerifyEx made so far
ExEncodes == { i \in 1..Len(encodeLog) :
                 encodeLog[i].fn = "PKCS7_SignVerifyEx" }

\* C1: every verification of PKCS7_SignVerifyEx is given a digest computed
\* by a digest pass of its own, made after the build: not the digest value
\* that was computed for and passed to the encode step, and not the one
\* another verification was given.
C1_VerifyDigestRecomputed ==
    /\ \A i \in ExVerifies, j \in ExEncodes :
         verifyLog[i].digest.pass > encodeLog[j].digest.pass
    /\ \A i, j \in ExVerifies :
         i # j => verifyLog[i].digest.pass # verifyLog[j].digest.pass

\* the file of PKCS7_SignVerifyEx was opened, written to its end and closed
ExFileWritten ==
    /\ prog = "pkcs7"
    /\ pc = "e_init2"
    /\ pemFile.st = "Closed"

\* C2: when PKCS7_SignVerifyEx has written the signed-message file, its
\* bytes are the outputHeadSz bytes of the header, then the MY_DATA_TOTAL
\* content bytes in offset order (the bytes that were digested), then the
\* outputFootSz bytes of the footer.
C2_FileIsHeadContentFoot ==
    ExFileWritten =>
        pemFile.data =
            Bytes("head", outputHead.sz)
            \o [k \in 1..myDataTotal |-> <<"body", hash.fed[k]>>]
            \o Bytes("foot", outputFoot.sz)

\* C3: a verification of PKCS7_SignVerifyEx made when the content is no
\* longer the content that was digested at build time (its last byte was
\* altered) never returns ok.
C3_AlteredContentFailsVerify ==
    \A i \in ExVerifies : verifyLog[i].altered => verifyLog[i].rc # 0

\* C4: unload is invoked exactly once on each handle that was loaded: never
\* on a handle that is not Loaded (never loaded, or unloaded already), never
\* twice for one load, and when the program ends every handle that was
\* loaded has had its unload.
C4_UnloadExactlyOnce ==
    /\ badUnload = {}
    /\ \A k \in Keys : unloads[k] <= 1
    /\ pc = "done" =>
         \A k \in Keys : key[k] \in {"Loaded", "Unloaded"} => unloads[k] = 1

NotAStep == {"wc_PKCS7_Free", "wc_HashFree", "XFCLOSE", "GetMyData",
             "wolfTPM2_UnloadHandle", "wolfTPM2_Cleanup",
             "PKCS7_SignVerify", "PKCS7_SignVerifyEx"}

\* the labels of the certificate load, which is input staging that runs
\* before the pipeline
CertLoad == {"x_deropen", "x_derload"}

\* the pipeline step recorded at index i of steps failed
StepFailed(i) ==
    LET call == steps[i][2]
        r == steps[i][3]
    IN  /\ call \notin NotAStep
        /\ steps[i][1] \notin CertLoad
        /\ IF call = "wc_PKCS7_EncodeSignedData" THEN r <= 0
           ELSE IF call = "wolfTPM2_SetCryptoDevCb" THEN r < 0
           ELSE r # 0

\* the code the failure recorded at index i of steps is reported with
StepCode(i) ==
    IF steps[i][2] \in {"XFOPEN", "XFWRITE", "XFREAD"} THEN -1
    ELSE steps[i][3]

\* C6: all errors surface: the PKCS7 example returns 0 only if no pipeline
\* step failed (file output included); after a failed step no later
\* pipeline step is executed; and the value returned is the failing step's
\* code (-1 for file I/O).
C6_ErrorsSurface ==
    prog = "pkcs7" =>
        /\ \A i, j \in 1..Len(steps) :
             (i < j /\ StepFailed(i)) => steps[j][2] \in NotAStep
        /\ pc = "done" =>
             \A i \in 1..Len(steps) :
                StepFailed(i) => rc # 0 /\ rc = StepCode(i)

\* C7: pulling the whole content with two chunk capacities feeds the same
\* byte sequence to the digest.
C7_ChunkingIndependent ==
    (\A r \in Readers : rdDone[r]) => rdFed[1] = rdFed[2]

\* C8: GetMyData with a buffer returns min(capacity, total - offset) when
\* offset < total and 0 otherwise, writes exactly the first ret bytes of the
\* buffer and none beyond its capacity, and never computes total - offset
\* with offset > total; with a NULL buffer it returns the total and writes
\* nothing.
C8_GetMyDataCount ==
    gmLast.valid =>
        IF gmLast.null
        THEN /\ gmLast.ret = myDataTotal
             /\ gmLast.wrote = {}
             /\ gmLast.buffer = <<>>
        ELSE /\ gmLast.ret = IF gmLast.offset < myDataTotal
                             THEN Min(gmLast.bufSz, myDataTotal - gmLast.offset)
                             ELSE 0
             /\ gmLast.wrote = 0..(gmLast.ret - 1)
             /\ gmLast.wrote \subseteq 0..(gmLast.bufSz - 1)
             /\ ~gmLast.underflow
             /\ Len(gmLast.buffer) = gmLast.bufSz
             /\ \A k \in 1..gmLast.bufSz :
                  (k <= gmLast.ret) <=> (gmLast.buffer[k] # -1)

\* a call whose capacity is larger than what is left of the content
C8_Witness ==
    /\ gmLast.valid
    /\ ~gmLast.null
    /\ gmLast.offset > 0
    /\ gmLast.offset < myDataTotal
    /\ gmLast.bufSz > myDataTotal - gmLast.offset
    /\ gmLast.ret = myDataTotal - gmLast.offset

\* the remembered call and the latest call have the same arguments
SameArgs ==
    /\ gmFirst.valid
    /\ gmLast.valid
    /\ gmFirst.null = gmLast.null
    /\ gmFirst.bufSz = gmLast.bufSz
    /\ gmFirst.offset = gmLast.offset

C10_KeyOpsOnlyWhileLoaded ==
    \A o \in keyOps : o[3] = "Loaded"

\* the benchmark ran every one of its key operations and finished
C10_Witness ==
    /\ prog = "bench"
    /\ pc = "done"
    /\ rc = 0
    /\ { o[1] : o \in keyOps } =
          {"wolfTPM2_EncryptDecrypt", "wolfTPM2_RsaEncrypt",
           "wolfTPM2_RsaDecrypt", "wolfTPM2_SignHash", "wolfTPM2_VerifyHash",
           "wolfTPM2_ECDHGen"}

\* the chunks of cs from index i on start at offset o, each where the one
\* before it ended
RECURSIVE Contiguous(_, _, _)
Contiguous(cs, i, o) ==
    IF i > Len(cs) THEN TRUE
    ELSE /\ cs[i][1] = o
         /\ cs[i][2] > 0
         /\ Contiguous(cs, i + 1, o + cs[i][2])

\* the sum of the sizes of the chunks of cs from index i on
RECURSIVE ChunkSum(_, _)
ChunkSum(cs, i) ==
    IF i > Len(cs) THEN 0 ELSE cs[i][2] + ChunkSum(cs, i + 1)

\* C11: whenever PKCS7_SignVerifyEx invokes the encode, the digest it passes
\* was finalized successfully over the bytes fed, the chunks fed start at
\* offset 0 and each starts where the one before it ended, their sizes sum
\* to the total length, which is the contentSz declared, and the bytes of
\* each chunk are the bytes the chunk source delivers at its offset.
C11_EncodeAfterWholeDigest ==
    \A j \in ExEncodes :
        /\ encodeLog[j].digest.valid
        /\ encodeLog[j].digest.over = hash.fed
        /\ Contiguous(hash.chunks, 1, 0)
        /\ ChunkSum(hash.chunks, 1) = myDataTotal
        /\ Len(hash.fed) = myDataTotal
        /\ encodeLog[j].contentSz = myDataTotal
        /\ \A c \in 1..Len(hash.chunks) :
             LET o == hash.chunks[c][1]
                 n == hash.chunks[c][2]
             IN  SubSeq(hash.fed, o + 1, o + n) =
                    GetMyData(FALSE, Untouched(n), n, o).buffer

\* an encode was invoked on a digest of several chunks, the last one short
C11_Witness ==
    /\ ExEncodes # {}
    /\ Len(hash.chunks) >= 2
    /\ hash.chunks[Len(hash.chunks)][2] < chunkCap
    /\ hash.chunks[1][2] = chunkCap

\* C12: PKCS7_SignVerifyEx passes the sizes of outputHead and outputFoot as
\* the capacities of the build; a build whose header or footer needs more
\* than its capacity fails with BUFFER_E and leaves no header or footer; a
\* build that succeeds reports lengths within the capacities, and no header
\* or footer ever holds more bytes than its buffer.
C12_BufferCeiling ==
    /\ outputHead.sz <= MaxPkcs7Size
    /\ outputFoot.sz <= MaxPkcs7Size
    /\ \A j \in ExEncodes :
        LET e == encodeLog[j]
        IN  /\ e.headCap = MaxPkcs7Size
            /\ e.footCap = MaxPkcs7Size
            /\ (e.headNeed > e.headCap \/ e.footNeed > e.footCap) =>
                  /\ e.rc # 0
                  /\ ~outputHead.valid
                  /\ ~outputFoot.valid
            /\ e.rc = 0 =>
                  /\ outputHead.valid /\ outputHead.sz = e.headNeed
                  /\ outputFoot.valid /\ outputFoot.sz = e.footNeed
                  /\ outputHead.sz <= e.headCap
                  /\ outputFoot.sz <= e.footCap

\* a build failed with BUFFER_E because the footer did not fit
C12_Witness ==
    \E j \in ExEncodes :
        /\ encodeLog[j].footNeed > encodeLog[j].footCap
        /\ encodeLog[j].headNeed <= encodeLog[j].headCap
        /\ encodeLog[j].rc = -132
        /\ rc = -132
        /\ ~outputFoot.valid

\* the positions inside PKCS7_SignVerify and PKCS7_SignVerifyEx
RoutineLabels ==
    {"s_init1", "s_cert1", "s_encode", "s_fopen", "s_fwrite", "s_init2",
     "s_cert2", "s_verify1", "s_init3", "s_cert3", "s_verify2", "s_ret",
     "e_hashinit", "e_getchunk", "e_hashupdate", "e_hashfinal", "e_hashfree",
     "e_init1", "e_cert1", "e_encode", "e_fopen", "e_whead", "e_wbody",
     "e_wfoot", "e_init2", "e_cert2", "e_verify1", "e_init3", "e_cert3",
     "e_verify2", "e_ret"}

\* control is inside PKCS7_SignVerify or PKCS7_SignVerifyEx
InRoutine == prog = "pkcs7" /\ pc \in RoutineLabels

\* C13: no step of PKCS7_SignVerify or PKCS7_SignVerifyEx loads or unloads
\* a key handle: each leaves the lifecycle state of every handle and the
\* count of its unloads as it found them, so rsaKey is the one Loaded handle
\* from the call of the first routine to the return of the second.
C13_KeyBorrowed ==
    /\ [](InRoutine => (key["rsaKey"] = "Loaded" /\ unloads["rsaKey"] = 0))
    /\ [][InRoutine =>
            (key' = key /\ unloads' = unloads /\ badUnload' = badUnload)]_vars

\* both routines signed with rsaKey, the second failed afterwards and
\* returns with the handle still Loaded
C13_Witness ==
    /\ prog = "pkcs7"
    /\ pc = "x_exit"
    /\ rc # 0
    /\ key["rsaKey"] = "Loaded"
    /\ unloads["rsaKey"] = 0
    /\ <<"wc_PKCS7_EncodeSignedData", "rsaKey", "Loaded">> \in keyOps
    /\ <<"wc_PKCS7_EncodeSignedData_ex", "rsaKey", "Loaded">> \in keyOps
    /\ Len(verifyLog) = 4

\* an update of the digest of PKCS7_SignVerifyEx failed
ExUpdateFailed ==
    \E i \in 1..Len(steps) :
        steps[i][2] = "wc_HashUpdate" /\ steps[i][3] # 0

\* C14: the incremental digest is driven in the order start, updates,
\* finish: an update is invoked only on a digest that a successful start
\* made Active and that was not finished since, and a finish only on an
\* Active digest none of whose updates failed; this in PKCS7_SignVerifyEx
\* and in bench_sym_hash.
C14_DigestOrder ==
    /\ (prog = "pkcs7" /\ pc = "e_hashupdate") =>
          hash.st = "Active" /\ ~ExUpdateFailed
    /\ (prog = "pkcs7" /\ pc = "e_hashfinal" /\ rc = 0) =>
          hash.st = "Active" /\ ~ExUpdateFailed
    /\ (prog = "pkcs7" /\ hash.st \in {"Final", "Freed"}) =>
          pc \notin {"e_getchunk", "e_hashupdate", "e_hashfinal"}
    /\ (prog = "bench" /\ pc = "h_update") =>
          tpmHash = "Active" /\ rc = 0
    /\ (prog = "bench" /\ pc = "h_finish") =>
          tpmHash = "Active" /\ rc = 0
    /\ (prog = "bench" /\ tpmHash = "Finalized") =>
          pc \notin {"h_update", "h_finish"}

\* bench_sym_hash is about to finish the digest of a later iteration, that
\* was started again after a finish
C14_Witness ==
    /\ prog = "bench"
    /\ pc = "h_finish"
    /\ count >= 1
    /\ hashIdx >= 2
    /\ tpmHash = "Active"

\* a / b rounded up
Ceil(a, b) == (a + b - 1) \div b

\* the number of wc_HashUpdate calls PKCS7_SignVerifyEx made
NumUpdates ==
    Cardinality({ i \in 1..Len(steps) : steps[i][2] = "wc_HashUpdate" })

\* the digest loop of PKCS7_SignVerifyEx is over
DigestLoopOver ==
    /\ prog = "pkcs7"
    /\ pc \in RoutineLabels \ {"s_init1", "s_cert1", "s_encode", "s_fopen",
                               "s_fwrite", "s_init2", "s_cert2", "s_verify1",
                               "s_init3", "s_cert3", "s_verify2", "s_ret",
                               "e_hashinit", "e_getchunk", "e_hashupdate"}
    /\ hash.st # "Uninit"

\* C15: the digest loop of PKCS7_SignVerifyEx is bounded: offset never
\* exceeds the total, every chunk fed starts where the one before it ended
\* and has the size min(capacity, total - offset) > 0, the loop makes at
\* most ceil(total / capacity) updates, and when it is over either an update
\* failed or offset = total after exactly ceil(total / capacity) updates.
C15_DigestLoopBounded ==
    prog = "pkcs7" =>
        /\ offset <= myDataTotal
        /\ Contiguous(hash.chunks, 1, 0)
        /\ \A c \in 1..Len(hash.chunks) :
             hash.chunks[c][2] = Min(chunkCap, myDataTotal - hash.chunks[c][1])
        /\ NumUpdates <= Ceil(myDataTotal, chunkCap)
        /\ (pc = "e_hashupdate" => offset < myDataTotal /\ dataChunkSz > 0)
        /\ DigestLoopOver =>
             \/ ExUpdateFailed
             \/ /\ offset = myDataTotal
                /\ NumUpdates = Ceil(myDataTotal, chunkCap)
                /\ Len(hash.chunks) = NumUpdates

\* the loop ended after several updates, the last one of total mod capacity
C15_Witness ==
    /\ prog = "pkcs7"
    /\ pc = "e_hashfinal"
    /\ myDataTotal % chunkCap # 0
    /\ NumUpdates >= 2
    /\ hash.chunks[NumUpdates][2] = myDataTotal % chunkCap
    /\ offset = myDataTotal

\* C16: the contentSz PKCS7_SignVerifyEx declares at the encode and at each
\* of its verifications is one value on every path (the file written or
\* not), the number of content bytes that were fed to the digest.
C16_ContentSzConsistent ==
    /\ \A j \in ExEncodes : encodeLog[j].contentSz = Len(hash.fed)
    /\ \A i \in ExVerifies :
         /\ verifyLog[i].contentSz = Len(hash.fed)
         /\ \A j \in ExEncodes :
              verifyLog[i].contentSz = encodeLog[j].contentSz

\* both verifications were made after the file was written, whose body loop
\* left dataChunkSz at 0 before the total was fetched again
C16_Witness ==
    /\ Cardinality(ExVerifies) = 2
    /\ myDataTotal > chunkCap
    /\ pemFile.st = "Closed"
    /\ \A i \in ExVerifies : verifyLog[i].contentSz = myDataTotal
    /\ \E i \in 1..Len(steps) :
         steps[i] = <<"e_wbody", "GetMyData", 0>>

\* the positions of TPM2_Wrapper_Bench, after the storage key is set up,
\* where the next call of a benchmark is about to be made
BenchStepLabels ==
    {"b_rng", "a_tmpl", "a_create", "a_encdec", "h_start", "h_update",
     "h_finish", "b_rsatmpl", "b_rsagen", "b_rsagencreate", "b_rsaenc1",
     "b_rsadec1", "b_rsaenc2", "b_rsadec2", "b_rsaunload", "b_ecctmpl",
     "b_eccgen", "b_eccgencreate", "b_sign", "b_verify", "b_eccunload",
     "b_ecdhtmpl", "b_ecdhcreate", "b_ecdh", "b_ecdhunload"}

\* rc has every bit of TPM_RC_HASH set
HashUnsupported == AndMask(rc, TPM_RC_HASH) = TPM_RC_HASH

\* rc is the unsupported result of the benchmark that just returned, passed
\* over by TPM2_Wrapper_Bench
PassedOver ==
    \/ /\ rc = TPM_RC_COMMAND_CODE
       /\ "aes" \in tolerated
       /\ pc = "a_tmpl" \/ (pc = "h_start" /\ hashIdx = 1 /\ count = 0)
    \/ /\ HashUnsupported
       /\ "hash" \in tolerated
       /\ (pc = "h_start" /\ hashIdx > 1 /\ count = 0) \/ pc = "b_rsatmpl"

\* C17: in TPM2_Wrapper_Bench a bench_sym_aes call that returns
\* TPM_RC_COMMAND_CODE and a bench_sym_hash call that returns a code with
\* every bit of TPM_RC_HASH set do not stop the run: the next benchmark
\* follows. Any other nonzero code of a benchmark step leads to the exit,
\* so no benchmark step is made with such a code in rc, and the exit path
\* returns rc as it is.
C17_UnsupportedTolerated ==
    /\ []((prog = "bench" /\ pc \in BenchStepLabels) =>
             (rc = 0 \/ PassedOver))
    /\ [][(prog = "bench" /\ pc = "a_exit") =>
            IF rc = 0 \/ rc = TPM_RC_COMMAND_CODE
            THEN pc' \in {"a_tmpl", "h_start"}
            ELSE pc' = "b_exit"]_vars
    /\ [][(prog = "bench" /\ pc = "h_ret") =>
            IF rc = 0 \/ HashUnsupported
            THEN pc' \in {"h_start", "b_rsatmpl"}
            ELSE pc' = "b_exit"]_vars
    /\ [][(prog = "bench" /\ pc \in {"a_exit", "h_ret", "b_exit", "b_exit2",
                                     "b_cleanup"}) => rc' = rc]_vars
    /\ [][(prog = "bench" /\ pc \in BenchStepLabels /\ pc' = "b_exit"
           /\ pc # "b_ecdhunload") => rc' # 0]_vars

\* an AES benchmark and a hash benchmark were unsupported, the hash one with
\* a code that is not TPM_RC_HASH itself seen at the next benchmark, and the
\* run went on
C17_WitnessHash ==
    /\ prog = "bench"
    /\ pc = "h_start"
    /\ hashIdx > 1
    /\ rc = TPM_RC_HASH + 320
    /\ tolerated = {"aes", "hash"}

\* the files of the PKCS7 example: the label of the open and the labels of
\* the reads, writes and closes of each
FileLabels ==
    [der |-> [open |-> "x_deropen", io |-> {"x_derload"}],
     sv  |-> [open |-> "s_fopen", io |-> {"s_fwrite"}],
     ex  |-> [open |-> "e_fopen", io |-> {"e_whead", "e_wbody", "e_wfoot"}]]

\* the indices in steps of the calls named in calls made on file f
FileCalls(f, calls) ==
    { i \in 1..Len(steps) :
        /\ steps[i][1] \in FileLabels[f].io
        /\ steps[i][2] \in calls }

\* the open of file f was made and succeeded
OpenedOk(f) ==
    \E i \in 1..Len(steps) : steps[i] = <<FileLabels[f].open, "XFOPEN", 0>>

\* control has left the part of the code that works on file f
FileSectionLeft(f) ==
    /\ \E i \in 1..Len(steps) : steps[i][1] = FileLabels[f].open
    /\ pc \notin FileLabels[f].io \cup {FileLabels[f].open}

\* C18: each of the three files of the PKCS7 example that was opened is
\* closed exactly once when control leaves the code that works on it, on the
\* write and read failure paths too; no read or write follows the close; and
\* no read, write or close is made on a file whose open failed.
C18_FilesClosedOnce ==
    prog = "pkcs7" =>
        \A f \in DOMAIN FileLabels :
            /\ Cardinality(FileCalls(f, {"XFCLOSE"})) <= 1
            /\ (OpenedOk(f) /\ FileSectionLeft(f)) =>
                  Cardinality(FileCalls(f, {"XFCLOSE"})) = 1
            /\ ~OpenedOk(f) =>
                  FileCalls(f, {"XFREAD", "XFWRITE", "XFCLOSE"}) = {}
            /\ \A i \in FileCalls(f, {"XFREAD", "XFWRITE"}),
                  j \in FileCalls(f, {"XFCLOSE"}) : i < j

\* the certificate and the first output file were read, written and closed,
\* the header of the second output file was written short and the function
\* left with that file closed
C18_Witness ==
    /\ prog = "pkcs7"
    /\ pc = "e_ret"
    /\ rc = -1
    /\ OpenedOk("der") /\ OpenedOk("sv") /\ OpenedOk("ex")
    /\ \A f \in DOMAIN FileLabels :
         Cardinality(FileCalls(f, {"XFCLOSE"})) = 1
    /\ <<"e_whead", "XFWRITE", -1>> \in { steps[i] : i \in 1..Len(steps) }

\* C19: TPM2_Wrapper_Bench creates and stores the primary storage key only
\* when the probe of the persistent handle failed, each at most once, the
\* store only after a successful create; when the probe succeeded it makes
\* no create and no store and sets the auth secret on the handle found; and
\* a benchmark is reached only with the key found, or created and stored
\* successfully.
C19_ProbeAndReuse ==
    prog = "bench" =>
        /\ storageKey.creates <= 1
        /\ storageKey.stores <= 1
        /\ storageKey.creates > 0 => storageKey.probe = "missing"
        /\ storageKey.stores > 0 =>
              storageKey.probe = "missing" /\ storageKey.created
        /\ storageKey.probe = "found" =>
              /\ storageKey.creates = 0
              /\ storageKey.stores = 0
              /\ storageKey.auth
        /\ storageKey.auth => storageKey.probe = "found"
        /\ pc \in BenchStepLabels \cup {"a_exit", "h_ret"} =>
              \/ storageKey.probe = "found"
              \/ /\ storageKey.probe = "missing"
                 /\ storageKey.creates = 1 /\ storageKey.created
                 /\ storageKey.stores = 1 /\ storageKey.stored

\* the probe failed, the key was created and stored, and the benchmarks ran
\* to the end
C19_Witness ==
    /\ prog = "bench"
    /\ pc = "done"
    /\ rc = 0
    /\ storageKey.probe = "missing"
    /\ storageKey.created
    /\ storageKey.stored
    /\ ~storageKey.auth

\* the positions of TPM2_Wrapper_Bench between the end of the key
\* generation loop of key variable k and the next unload of k
AfterGen(k) ==
    IF k = "rsaKey"
    THEN {"b_rsaenc1", "b_rsadec1", "b_rsaenc2", "b_rsadec2", "b_rsaunload"}
    ELSE {"b_sign", "b_verify", "b_eccunload"}

\* the positions of the key generation loop of key variable k: the top of
\* an iteration and its create-and-load call
GenHead(k) == IF k = "rsaKey" THEN "b_rsagen" ELSE "b_eccgen"
GenCreate(k) == IF k = "rsaKey" THEN "b_rsagencreate" ELSE "b_eccgencreate"

\* C20: in the RSA and ECC key generation loops of TPM2_Wrapper_Bench the
\* create-and-load call is never made on a key variable whose handle is
\* Loaded; after count iterations count keys were created and, from the
\* second iteration on, the previous one unloaded first; when the loop has
\* ended after n iterations, n creates and n - 1 unloads were made and the
\* key variable holds one Loaded key.
C20_OneKeyLoaded ==
    prog = "bench" =>
        \A k \in {"rsaKey", "eccKey"} :
            /\ pc = GenHead(k) =>
                  /\ gen.creates = count
                  /\ gen.unloads = IF count > 0 THEN count - 1 ELSE 0
                  /\ count > 0 => key[k] = "Loaded"
            /\ pc = GenCreate(k) =>
                  /\ key[k] # "Loaded"
                  /\ gen.creates = count
                  /\ gen.unloads = count
            /\ pc \in AfterGen(k) =>
                  /\ gen.creates >= 1
                  /\ gen.unloads = gen.creates - 1
                  /\ key[k] = "Loaded"
                  /\ unloads[k] = 0

\* the ECC key generation loop ended after two iterations
C20_Witness ==
    /\ prog = "bench"
    /\ pc = "b_sign"
    /\ gen = [creates |-> 2, unloads |-> 1]
    /\ key["eccKey"] = "Loaded"

(* ---------------------------------------------------------------------- *)
(* PKCS7 contexts: wc_PKCS7_Init paired with wc_PKCS7_Free                 *)
(* ---------------------------------------------------------------------- *)

\* the successful wc_PKCS7_Init calls of both routines
PkInits == { i \in 1..Len(steps) :
               steps[i][2] = "wc_PKCS7_Init" /\ steps[i][3] = 0 }

\* what ends the life of an initialised context: the next wc_PKCS7_Init on
\* it, or the return of the routine that owns it
PkBoundary(j) ==
    steps[j][2] \in {"wc_PKCS7_Init", "PKCS7_SignVerify", "PKCS7_SignVerifyEx"}

\* the first boundary after the call at i
PkEnd(i, j) ==
    /\ j > i
    /\ PkBoundary(j)
    /\ \A k \in (i + 1)..(j - 1) : ~PkBoundary(k)

\* the wc_PKCS7_Free calls between the calls at i and j
PkFrees(i, j) ==
    Cardinality({ k \in (i + 1)..(j - 1) : steps[k][2] = "wc_PKCS7_Free" })

\* C21: every PKCS7 context initialised with wc_PKCS7_Init in
\* PKCS7_SignVerify and PKCS7_SignVerifyEx is released with wc_PKCS7_Free
\* exactly once before the next wc_PKCS7_Init on it and before the routine
\* returns, on every path including the error exits
C21_ContextFreedOnce ==
    \A i \in PkInits : \A j \in 1..Len(steps) :
        PkEnd(i, j) => PkFrees(i, j) = 1

(* ---------------------------------------------------------------------- *)
(* Hash sequences: every start is closed                                   *)
(* ---------------------------------------------------------------------- *)

\* the calls of the given name on the digest of PKCS7_SignVerifyEx
HashCalls(call) == { i \in 1..Len(steps) : steps[i][2] = call }

\* wc_HashInit of PKCS7_SignVerifyEx succeeded
HashInitOk ==
    \E i \in HashCalls("wc_HashInit") : steps[i][3] = 0

\* the digest section of PKCS7_SignVerifyEx (pkcs7.c:110-126) was left
HashSectionLeft ==
    /\ prog = "pkcs7"
    /\ HashCalls("wc_HashInit") # {}
    /\ pc \notin {"e_getchunk", "e_hashupdate", "e_hashfinal", "e_hashfree"}

\* C22: every hash sequence that is started is closed on every path: in
\* PKCS7_SignVerifyEx wc_HashFree is called exactly once if and only if
\* wc_HashInit succeeded (also when an update or the final fails); in
\* bench_sym_hash every successful wolfTPM2_HashStart is followed by
\* wolfTPM2_HashFinish before the next start and before the function
\* returns, including when wolfTPM2_HashUpdate fails
C22_HashClosed ==
    /\ HashSectionLeft =>
          Cardinality(HashCalls("wc_HashFree")) = (IF HashInitOk THEN 1 ELSE 0)
    /\ prog = "pkcs7" => Cardinality(HashCalls("wc_HashFree")) <= 1
    /\ (prog = "bench" /\ pc \in {"h_start", "h_ret"}) => tpmHash # "Active"

\* the part of C22 about PKCS7_SignVerifyEx alone
C22_ExHashFreed ==
    /\ HashSectionLeft =>
          Cardinality(HashCalls("wc_HashFree")) = (IF HashInitOk THEN 1 ELSE 0)
    /\ prog = "pkcs7" => Cardinality(HashCalls("wc_HashFree")) <= 1

(* ---------------------------------------------------------------------- *)
(* Device session: wolfTPM2_Init ... wolfTPM2_Cleanup                      *)
(* ---------------------------------------------------------------------- *)

\* the positions of a run at which wolfTPM2_Init was not yet called or has
\* failed
BeforeSession == {"x_init", "b_init", "done"}

\* no device operation on a key or a hash sequence, and no cleanup
NoDeviceOp ==
    /\ key' = key
    /\ unloads' = unloads
    /\ badUnload' = badUnload
    /\ keyOps' = keyOps
    /\ tpmHash' = tpmHash
    /\ hash' = hash
    /\ dev' # "CleanedUp"

\* C23: in TPM2_Wrapper_Bench and TPM2_PKCS7_ExampleArgs wolfTPM2_Cleanup is
\* called exactly once if and only if wolfTPM2_Init succeeded (it is called
\* on an Open device only, and no run ends with the device left Open), it is
\* the last device operation of the run and every key unload happens before
\* it; when wolfTPM2_Init fails no other device operation (unload, cleanup,
\* key or hash call) is performed
C23_DeviceSession ==
    /\ [](prog \in {"pkcs7", "bench"} =>
            /\ (pc \in {"x_cleanup", "b_cleanup"} => dev = "Open")
            /\ (pc = "done" => dev \in {"Closed", "CleanedUp"})
            /\ (dev = "CleanedUp" => pc = "done")
            /\ (dev = "Closed" => pc \in BeforeSession)
            /\ (dev = "Closed" /\ pc = "done" => rc # 0))
    /\ [][(prog \in {"pkcs7", "bench"} /\ dev # "Open") => NoDeviceOp]_vars

\* a run of the PKCS7 example ended: the device was opened, the key was
\* loaded, then unloaded, and the device was cleaned up
C23_Witness ==
    /\ prog = "pkcs7"
    /\ pc = "done"
    /\ dev = "CleanedUp"
    /\ key["rsaKey"] = "Unloaded"
    /\ unloads["rsaKey"] = 1

(* ---------------------------------------------------------------------- *)
(* Loading the DER certificate (pkcs7.c:362-378)                           *)
(* ---------------------------------------------------------------------- *)

\* the certificate file was opened and the load section was left
DerLoaded == prog = "pkcs7" /\ der.file = "Closed"

\* the positions after a jump to the exit label of TPM2_PKCS7_ExampleArgs
ExitLabels == {"x_exit", "x_cleanup", "done"}

\* neither PKCS7_SignVerify nor PKCS7_SignVerifyEx was entered
NoRoutineRun ==
    /\ pc \in ExitLabels
    /\ \A i \in 1..Len(steps) :
          steps[i][1] \notin {"s_init1", "e_hashinit"}

\* what C24 says of a size above the capacity and of a short read: BUFFER_E
\* with no read performed, respectively -1, and no routine is run
DerLoadRejects ==
    /\ (DerLoaded /\ der.size > DerBufferSize) =>
          /\ rc = -132
          /\ der.nread = 0
          /\ \A i \in 1..Len(steps) : steps[i][2] # "XFREAD"
          /\ NoRoutineRun
    /\ (DerLoaded /\ der.size <= DerBufferSize /\ der.nread # der.size) =>
          /\ rc = -1
          /\ NoRoutineRun

\* C24: loading the DER certificate in TPM2_PKCS7_ExampleArgs never reads
\* more bytes into der.buffer than its capacity, for every value the
\* file-size query can return (including an error value such as -1): a size
\* larger than the capacity yields BUFFER_E with no read performed, a short
\* read yields -1, and in both cases neither sign/verify routine is run
C24_DerLoadBounded ==
    /\ prog = "pkcs7" => der.nread <= DerBufferSize
    /\ DerLoadRejects


====
